---- MODULE Spec2Model ----
(***************************************************************************)
(* A model of FracturedJsonJs: the tokenizer and parser, the length        *)
(* pre-pass, the table template analyzer and the layout engine of          *)
(* Formatter.Reformat / Formatter.Minify.                                  *)
(*                                                                         *)
(* Text is a sequence of one-character strings, so that widths, offsets    *)
(* and line contents are those of the program's strings.                   *)
(***************************************************************************)
EXTENDS Integers, Sequences, FiniteSets, TLC

VARIABLES
    opts,       \* Formatter.Options in force for the calls
    input,      \* the JSON text handed to the first Reformat
    pc,         \* which call of the session comes next
    initialOutput,      \* result of Reformat(input)
    layouts,            \* per container FormatContainer visited in that call: the layout chosen
    crunchOutput,       \* result of Minify(initialOutput)
    backToStartOutput1, \* result of Reformat(crunchOutput)
    expandOutput,       \* result of the all-expanding formatter's Reformat(crunchOutput)
    backToStartOutput2, \* result of Reformat(expandOutput)
    failed              \* the message of the call that threw, "" while none has

vars == <<opts, input, pc, initialOutput, layouts, crunchOutput, backToStartOutput1,
          expandOutput, backToStartOutput2, failed>>

-----------------------------------------------------------------------------
(* Text helpers *)

Max(a, b) == IF a >= b THEN a ELSE b
Min(a, b) == IF a <= b THEN a ELSE b

RECURSIVE Flatten(_)
Flatten(ss) == IF ss = <<>> THEN <<>> ELSE Head(ss) \o Flatten(Tail(ss))

\* String.repeat / PaddedFormattingTokens.Spaces: a negative count yields
\* undefined, which Array.join writes as the empty string.
Spaces(n) == IF n <= 0 THEN <<>> ELSE [i \in 1..n |-> " "]

Digits == <<"0", "1", "2", "3", "4", "5", "6", "7", "8", "9">>
isDigit(ch) == \E i \in 1..10 : Digits[i] = ch
DigitVal(ch) == (CHOOSE i \in 1..10 : Digits[i] = ch) - 1
DigitChar(d) == Digits[d + 1]

\* String.indexOf for a set of characters, 0-based, -1 when absent.
IndexOfAny(s, chars) ==
    IF \E i \in 1..Len(s) : s[i] \in chars
    THEN (CHOOSE i \in 1..Len(s) : s[i] \in chars /\ \A j \in 1..(i-1) : s[j] \notin chars) - 1
    ELSE -1

\* String.includes
Includes(s, sub) ==
    \E i \in 0..(Len(s) - Len(sub)) : \A j \in 1..Len(sub) : s[i + j] = sub[j]

IsWhitespace(ch) == ch \in {" ", "\t", "\r", "\n"}

\* String.trimEnd
RECURSIVE TrimEnd(_)
TrimEnd(s) ==
    IF s # <<>> /\ IsWhitespace(s[Len(s)]) THEN TrimEnd(SubSeq(s, 1, Len(s) - 1)) ELSE s

\* String.trimStart
RECURSIVE TrimStart(_)
TrimStart(s) ==
    IF s # <<>> /\ IsWhitespace(Head(s)) THEN TrimStart(Tail(s)) ELSE s

\* String.padStart with spaces
PadStart(s, width) == Spaces(width - Len(s)) \o s

\* Decimal digits of a natural number, most significant first.
RECURSIVE NatDigits(_)
NatDigits(n) == IF n < 10 THEN <<DigitChar(n)>> ELSE NatDigits(n \div 10) \o <<DigitChar(n % 10)>>

\* Value of a sequence of digit characters.
RECURSIVE DigitsNat(_)
DigitsNat(s) == IF s = <<>> THEN 0 ELSE DigitsNat(SubSeq(s, 1, Len(s) - 1)) * 10 + DigitVal(s[Len(s)])

-----------------------------------------------------------------------------
(* JavaScript numbers: Number(text), Number.prototype.toString and          *)
(* Number.prototype.toFixed, on a decimal representation.  A value is       *)
(* zero, infinite, or 0.d1d2...dk * 10^point with d1 # 0 and dk # 0.        *)

\* Largest and smallest decimal exponents of a finite non-zero double.
DoubleMaxPoint == 309
DoubleMinPoint == -323

RECURSIVE StripLeadingZeros(_)
StripLeadingZeros(s) == IF s # <<>> /\ Head(s) = "0" THEN StripLeadingZeros(Tail(s)) ELSE s

RECURSIVE StripTrailingZeros(_)
StripTrailingZeros(s) ==
    IF s # <<>> /\ s[Len(s)] = "0" THEN StripTrailingZeros(SubSeq(s, 1, Len(s) - 1)) ELSE s

\* Number(text) for a JSON number literal.
ToNumber(text) ==
    LET neg == text # <<>> /\ Head(text) = "-"
        body == IF neg THEN Tail(text) ELSE text
        ePos == IndexOfAny(body, {"e", "E"})
        mant == IF ePos >= 0 THEN SubSeq(body, 1, ePos) ELSE body
        expT == IF ePos >= 0 THEN SubSeq(body, ePos + 2, Len(body)) ELSE <<>>
        expNeg == expT # <<>> /\ Head(expT) = "-"
        expDig == IF expT # <<>> /\ Head(expT) \in {"+", "-"} THEN Tail(expT) ELSE expT
        expV == IF expNeg THEN 0 - DigitsNat(expDig) ELSE DigitsNat(expDig)
        dot == IndexOfAny(mant, {"."})
        whole == IF dot >= 0 THEN SubSeq(mant, 1, dot) ELSE mant
        frac == IF dot >= 0 THEN SubSeq(mant, dot + 2, Len(mant)) ELSE <<>>
        all == whole \o frac
        lead == StripLeadingZeros(all)
        digs == StripTrailingZeros(lead)
        point == Len(whole) + expV - (Len(all) - Len(lead))
    IN  IF digs = <<>> THEN [kind |-> "zero", neg |-> neg, digs |-> <<>>, point |-> 0]
        ELSE IF point > DoubleMaxPoint THEN [kind |-> "inf", neg |-> neg, digs |-> <<>>, point |-> 0]
        ELSE IF point < DoubleMinPoint THEN [kind |-> "zero", neg |-> neg, digs |-> <<>>, point |-> 0]
        ELSE [kind |-> "fin", neg |-> neg, digs |-> digs, point |-> point]

Zeros(n) == IF n <= 0 THEN <<>> ELSE [i \in 1..n |-> "0"]

\* Number.prototype.toString()
NumberToString(v) ==
    LET sign == IF v.neg THEN <<"-">> ELSE <<>>
        k == Len(v.digs)
        n == v.point
        e == n - 1
        expo == <<"e">> \o (IF e < 0 THEN <<"-">> ELSE <<"+">>) \o NatDigits(IF e < 0 THEN 0 - e ELSE e)
    IN  IF v.kind = "zero" THEN <<"0">>
        ELSE IF v.kind = "inf" THEN sign \o <<"I", "n", "f", "i", "n", "i", "t", "y">>
        ELSE IF k <= n /\ n <= 21 THEN sign \o v.digs \o Zeros(n - k)
        ELSE IF 0 < n /\ n <= 21 THEN sign \o SubSeq(v.digs, 1, n) \o <<".">> \o SubSeq(v.digs, n + 1, k)
        ELSE IF -6 < n /\ n <= 0 THEN sign \o <<"0", ".">> \o Zeros(0 - n) \o v.digs
        ELSE IF k = 1 THEN sign \o v.digs \o expo
        ELSE sign \o <<Head(v.digs)>> \o <<".">> \o Tail(v.digs) \o expo

\* Adds one unit in the last place of a digit string (carrying).
RECURSIVE Increment(_)
Increment(s) ==
    IF s = <<>> THEN <<"1">>
    ELSE IF s[Len(s)] = "9" THEN Increment(SubSeq(s, 1, Len(s) - 1)) \o <<"0">>
    ELSE SubSeq(s, 1, Len(s) - 1) \o <<DigitChar(DigitVal(s[Len(s)]) + 1)>>

\* Number.prototype.toFixed(fractionDigits)
NumberToFixed(v, f) ==
    LET sign == IF v.neg THEN <<"-">> ELSE <<>>
        k == Len(v.digs)
        n == v.point
        \* all digits of the value in fixed notation: whole part then fraction
        wholeD == IF n <= 0 THEN <<"0">> ELSE IF n >= k THEN v.digs \o Zeros(n - k) ELSE SubSeq(v.digs, 1, n)
        fracD == IF n <= 0 THEN Zeros(0 - n) \o v.digs ELSE IF n >= k THEN <<>> ELSE SubSeq(v.digs, n + 1, k)
        kept == SubSeq(fracD \o Zeros(f - Len(fracD)), 1, f)
        roundUp == Len(fracD) > f /\ DigitVal(fracD[f + 1]) >= 5
        joined == wholeD \o kept
        rounded == IF roundUp THEN Increment(joined) ELSE joined
        wlen == Len(rounded) - f
        text == SubSeq(rounded, 1, wlen) \o (IF f > 0 THEN <<".">> \o SubSeq(rounded, wlen + 1, Len(rounded)) ELSE <<>>)
    IN  IF v.kind = "inf" THEN sign \o <<"I", "n", "f", "i", "n", "i", "t", "y">>
        ELSE IF v.kind = "zero" THEN <<"0">> \o (IF f > 0 THEN <<".">> \o Zeros(f) ELSE <<>>)
        ELSE IF n > 21 THEN NumberToString(v)
        ELSE sign \o text

-----------------------------------------------------------------------------
(* FracturedJsonOptions: the defaults of the options class. *)

DefaultOptions ==
    [ JsonEolStyle |-> "Lf",
      MaxInlineLength |-> 2000000000,
      MaxTotalLineLength |-> 120,
      MaxInlineComplexity |-> 2,
      MaxCompactArrayComplexity |-> 1,
      MaxTableRowComplexity |-> 2,
      MinCompactArrayRowItems |-> 3,
      AlwaysExpandDepth |-> -1,
      NestedBracketPadding |-> TRUE,
      SimpleBracketPadding |-> FALSE,
      ColonPadding |-> TRUE,
      CommaPadding |-> TRUE,
      CommentPadding |-> TRUE,
      DontJustifyNumbers |-> FALSE,
      IndentSpaces |-> 4,
      UseTabToIndent |-> FALSE,
      PrefixString |-> <<>>,
      CommentPolicy |-> "TreatAsError",
      PreserveBlankLines |-> FALSE,
      AllowTrailingCommas |-> FALSE ]

-----------------------------------------------------------------------------
(* PaddedFormattingTokens, as functions of the options. *)

BracketPad(o, padType) ==
    CASE padType = "Empty" -> FALSE
      [] padType = "Simple" -> o.SimpleBracketPadding
      [] padType = "Complex" -> o.NestedBracketPadding

ArrStart(o, padType) == IF BracketPad(o, padType) THEN <<"[", " ">> ELSE <<"[">>
ArrEnd(o, padType) == IF BracketPad(o, padType) THEN <<" ", "]">> ELSE <<"]">>
ObjStart(o, padType) == IF BracketPad(o, padType) THEN <<"{", " ">> ELSE <<"{">>
ObjEnd(o, padType) == IF BracketPad(o, padType) THEN <<" ", "}">> ELSE <<"}">>

Start(o, elemType, padType) == IF elemType = "Array" THEN ArrStart(o, padType) ELSE ObjStart(o, padType)
End(o, elemType, padType) == IF elemType = "Array" THEN ArrEnd(o, padType) ELSE ObjEnd(o, padType)

ArrStartLen(o, padType) == Len(ArrStart(o, padType))
ArrEndLen(o, padType) == Len(ArrEnd(o, padType))
StartLen(o, elemType, padType) == Len(Start(o, elemType, padType))
EndLen(o, elemType, padType) == Len(End(o, elemType, padType))

Comma(o) == IF o.CommaPadding THEN <<",", " ">> ELSE <<",">>
Colon(o) == IF o.ColonPadding THEN <<":", " ">> ELSE <<":">>
Comment(o) == IF o.CommentPadding THEN <<" ">> ELSE <<>>
EOL(o) == IF o.JsonEolStyle = "Crlf" THEN <<"\r", "\n">> ELSE <<"\n">>
CommaLen(o) == Len(Comma(o))
ColonLen(o) == Len(Colon(o))
CommentLen(o) == Len(Comment(o))
PrefixStringLen(o) == Len(o.PrefixString)
DummyComma(o) == Spaces(CommaLen(o))

IndentUnit(o) == IF o.UseTabToIndent THEN <<"\t">> ELSE Spaces(o.IndentSpaces)
Indent(o, level) == Flatten([i \in 1..level |-> IndentUnit(o)])

-----------------------------------------------------------------------------
(* JsonItem *)

NewJsonItem ==
    [ Type |-> "Null", Row |-> 0, Column |-> 0, Complexity |-> 0,
      Name |-> <<>>, Value |-> <<>>,
      PrefixComment |-> <<>>, MiddleComment |-> <<>>, PostfixComment |-> <<>>,
      IsPostCommentLineStyle |-> FALSE,
      NameLength |-> 0, ValueLength |-> 0,
      PrefixCommentLength |-> 0, MiddleCommentLength |-> 0, PostfixCommentLength |-> 0,
      MinimumTotalLength |-> 0, RequiresMultipleLines |-> FALSE,
      Children |-> <<>> ]

IsCommentOrBlankLine(type) == type \in {"BlankLine", "BlockComment", "LineComment"}

IsContainer(type) == type \in {"Array", "Object"}

GetPaddingType(arrOrObj) ==
    IF Len(arrOrObj.Children) = 0 THEN "Empty"
    ELSE IF arrOrObj.Complexity >= 2 THEN "Complex" ELSE "Simple"

RECURSIVE SumSeq(_)
SumSeq(ns) == IF ns = <<>> THEN 0 ELSE Head(ns) + SumSeq(Tail(ns))

HasNewline(s) == \E i \in 1..Len(s) : s[i] = "\n"

\* Formatter.ComputeItemLengths: returns the item with its lengths filled in,
\* children first.
RECURSIVE ComputeItemLengths(_, _)
ComputeItemLengths(o, item) ==
    LET kids == [i \in 1..Len(item.Children) |-> ComputeItemLengths(o, item.Children[i])]
        withKids == [item EXCEPT !.Children = kids]
        padType == GetPaddingType(withKids)
        valueLength ==
            IF IsContainer(item.Type)
            THEN StartLen(o, item.Type, padType) + EndLen(o, item.Type, padType)
                 + SumSeq([i \in 1..Len(kids) |-> kids[i].MinimumTotalLength])
                 + Max(0, CommaLen(o) * (Len(kids) - 1))
            ELSE Len(item.Value)
        nameLength == Len(item.Name)
        prefixLen == Len(item.PrefixComment)
        middleLen == Len(item.MiddleComment)
        postfixLen == Len(item.PostfixComment)
    IN  [withKids EXCEPT
            !.NameLength = nameLength,
            !.ValueLength = valueLength,
            !.PrefixCommentLength = prefixLen,
            !.MiddleCommentLength = middleLen,
            !.PostfixCommentLength = postfixLen,
            !.RequiresMultipleLines =
                \/ IsCommentOrBlankLine(item.Type)
                \/ \E i \in 1..Len(kids) : kids[i].RequiresMultipleLines \/ kids[i].IsPostCommentLineStyle
                \/ HasNewline(item.PrefixComment)
                \/ HasNewline(item.MiddleComment)
                \/ HasNewline(item.PostfixComment)
                \/ HasNewline(item.Value),
            !.MinimumTotalLength =
                (IF prefixLen > 0 THEN prefixLen + CommentLen(o) ELSE 0)
                + (IF nameLength > 0 THEN nameLength + ColonLen(o) ELSE 0)
                + (IF middleLen > 0 THEN middleLen + CommentLen(o) ELSE 0)
                + valueLength
                + (IF postfixLen > 0 THEN postfixLen + CommentLen(o) ELSE 0)]

\* Formatter.AvailableLineSpace
AvailableLineSpace(o, depth) ==
    Min(o.MaxInlineLength, o.MaxTotalLineLength - PrefixStringLen(o) - o.IndentSpaces * depth)

-----------------------------------------------------------------------------
(* TableTemplate: measures the rows of a prospective table, column by       *)
(* column.                                                                  *)

\* Number.MAX_VALUE as an "unlimited" depth or column.
NumberMaxValue == 1000000

\* maxChars in MeasureRowSegment
maxChars == 15

NewTableTemplate(allowReformattingNumbers) ==
    [ LocationInParent |-> <<>>,
      Type |-> "Null",
      IsRowDataCompatible |-> TRUE,
      RowCount |-> 0,
      NameLength |-> 0,
      SimpleValueLength |-> 0,
      PrefixCommentLength |-> 0,
      MiddleCommentLength |-> 0,
      PostfixCommentLength |-> 0,
      PadType |-> "Simple",
      IsFormattableNumber |-> allowReformattingNumbers,
      CompositeValueLength |-> 0,
      TotalLength |-> 0,
      Children |-> <<>>,
      allowReformattingNumbers |-> allowReformattingNumbers,
      maxDigitsBeforeDecimal |-> 0,
      maxDigitsAfterDecimal |-> 0,
      dataContainsNull |-> FALSE ]

\* A check that finds no repeated key in any list.
ContainsDuplicateKeysNever(list) == FALSE

\* keys.some((v, i) => keys.indexOf(v) !== i)
ContainsDuplicateKeys(list) ==
    \E i, j \in 1..Len(list) : i < j /\ list[i].Name = list[j].Name

RECURSIVE MeasureRowSegment(_, _)
RECURSIVE MeasureArrayChildren(_, _, _)
RECURSIVE MeasureObjectChildren(_, _, _, _)

\* The Array branch of MeasureRowSegment: one sub-template per index.
MeasureArrayChildren(tmplChildren, rowChildren, allow) ==
    [i \in 1..Max(Len(tmplChildren), Len(rowChildren)) |->
        IF i > Len(rowChildren) THEN tmplChildren[i]
        ELSE MeasureRowSegment(
                IF i <= Len(tmplChildren) THEN tmplChildren[i] ELSE NewTableTemplate(allow),
                rowChildren[i])]

\* The Object branch of MeasureRowSegment: sub-templates found by name, in
\* order of first appearance.
MeasureObjectChildren(tmplChildren, rowChildren, i, allow) ==
    IF i > Len(rowChildren) THEN tmplChildren
    ELSE LET rowSegChild == rowChildren[i]
             found == {k \in 1..Len(tmplChildren) : tmplChildren[k].LocationInParent = rowSegChild.Name}
             k == IF found = {} THEN Len(tmplChildren) + 1
                  ELSE CHOOSE x \in found : \A y \in found : x <= y
             base == IF found = {}
                     THEN Append(tmplChildren,
                                 [NewTableTemplate(allow) EXCEPT !.LocationInParent = rowSegChild.Name])
                     ELSE tmplChildren
         IN  MeasureObjectChildren([base EXCEPT ![k] = MeasureRowSegment(base[k], rowSegChild)],
                                   rowChildren, i + 1, allow)

MeasureRowSegment(t, rowSegment) ==
    IF IsCommentOrBlankLine(rowSegment.Type) THEN t
    ELSE
    LET typed ==
            IF rowSegment.Type \in {"False", "True"}
            THEN [t EXCEPT !.IsRowDataCompatible = t.IsRowDataCompatible /\ t.Type \in {"True", "Null"},
                           !.Type = "True",
                           !.IsFormattableNumber = FALSE]
            ELSE IF rowSegment.Type = "Number"
            THEN [t EXCEPT !.IsRowDataCompatible = t.IsRowDataCompatible /\ t.Type \in {"Number", "Null"},
                           !.Type = "Number"]
            ELSE IF rowSegment.Type = "Null"
            THEN [t EXCEPT !.dataContainsNull = TRUE]
            ELSE [t EXCEPT !.IsRowDataCompatible = t.IsRowDataCompatible /\ t.Type \in {rowSegment.Type, "Null"},
                           !.Type = IF t.Type = "Null" THEN rowSegment.Type ELSE t.Type,
                           !.IsFormattableNumber = FALSE]
        sized ==
            [typed EXCEPT
                !.IsRowDataCompatible = typed.IsRowDataCompatible /\ ~rowSegment.RequiresMultipleLines,
                !.RowCount = typed.RowCount + 1,
                !.NameLength = Max(typed.NameLength, rowSegment.NameLength),
                !.SimpleValueLength = Max(typed.SimpleValueLength, rowSegment.ValueLength),
                !.MiddleCommentLength = Max(typed.MiddleCommentLength, rowSegment.MiddleCommentLength),
                !.PrefixCommentLength = Max(typed.PrefixCommentLength, rowSegment.PrefixCommentLength),
                !.PostfixCommentLength = Max(typed.PostfixCommentLength, rowSegment.PostfixCommentLength),
                !.PadType = IF rowSegment.Complexity >= 2 THEN "Complex" ELSE typed.PadType]
        \* the Number branch, given Number(rowSegment.Value).toString()
        Counted(normalizedVal) ==
            LET indexOfDot == IndexOfAny(normalizedVal, {"."})
            IN  [sized EXCEPT
                    !.IsFormattableNumber =
                        Len(normalizedVal) <= maxChars /\ IndexOfAny(normalizedVal, {"e"}) < 0,
                    !.maxDigitsBeforeDecimal =
                        Max(sized.maxDigitsBeforeDecimal,
                            IF indexOfDot >= 0 THEN indexOfDot ELSE Len(normalizedVal)),
                    !.maxDigitsAfterDecimal =
                        Max(sized.maxDigitsAfterDecimal,
                            IF indexOfDot >= 0 THEN Len(normalizedVal) - indexOfDot - 1 ELSE 0)]
    IN  IF ~sized.IsRowDataCompatible THEN sized
        ELSE IF rowSegment.Type = "Array"
        THEN [sized EXCEPT !.Children =
                MeasureArrayChildren(sized.Children, rowSegment.Children, sized.allowReformattingNumbers)]
        ELSE IF rowSegment.Type = "Object"
        THEN IF ContainsDuplicateKeys(rowSegment.Children)
             THEN [sized EXCEPT !.IsRowDataCompatible = FALSE]
             ELSE [sized EXCEPT !.Children =
                     MeasureObjectChildren(sized.Children, rowSegment.Children, 1,
                                           sized.allowReformattingNumbers)]
        ELSE IF rowSegment.Type = "Number" /\ sized.IsFormattableNumber
        THEN Counted(NumberToString(ToNumber(rowSegment.Value)))
        ELSE sized

\* TotalLength of a template or MinimumTotalLength of an item: the value
\* plus whichever of comments and name are present.
TemplateTotalLength(o, t, compositeValueLength) ==
    (IF t.PrefixCommentLength > 0 THEN t.PrefixCommentLength + CommentLen(o) ELSE 0)
    + (IF t.NameLength > 0 THEN t.NameLength + ColonLen(o) ELSE 0)
    + (IF t.MiddleCommentLength > 0 THEN t.MiddleCommentLength + CommentLen(o) ELSE 0)
    + compositeValueLength
    + (IF t.PostfixCommentLength > 0 THEN t.PostfixCommentLength + CommentLen(o) ELSE 0)

RECURSIVE PruneAndRecompute(_, _, _)
PruneAndRecompute(o, t, maxAllowedComplexity) ==
    LET kept == IF maxAllowedComplexity <= 0 THEN <<>> ELSE t.Children
        pruned == [i \in 1..Len(kept) |-> PruneAndRecompute(o, kept[i], maxAllowedComplexity - 1)]
        children == IF ~t.IsRowDataCompatible THEN <<>> ELSE pruned
        numberLength == t.maxDigitsBeforeDecimal + t.maxDigitsAfterDecimal
                        + (IF t.maxDigitsAfterDecimal > 0 THEN 1 ELSE 0)
        compositeValueLength ==
            IF Len(children) > 0
            THEN SumSeq([i \in 1..Len(children) |-> children[i].TotalLength])
                 + Max(0, CommaLen(o) * (Len(children) - 1))
                 + ArrStartLen(o, t.PadType) + ArrEndLen(o, t.PadType)
            ELSE IF t.IsFormattableNumber
            THEN IF t.dataContainsNull /\ numberLength < 4 THEN 4 ELSE numberLength
            ELSE t.SimpleValueLength
    IN  [t EXCEPT !.Children = children,
                  !.CompositeValueLength = compositeValueLength,
                  !.TotalLength = TemplateTotalLength(o, t, compositeValueLength)]

RECURSIVE MeasureRows(_, _, _)
MeasureRows(t, rows, i) ==
    IF i > Len(rows) THEN t ELSE MeasureRows(MeasureRowSegment(t, rows[i]), rows, i + 1)

MeasureTableRoot(o, tableRoot) ==
    LET \* IsRowDataCompatible &&= (RowCount >= 2), on the measured and sized template
        Rooted(sized) == [sized EXCEPT !.IsRowDataCompatible = sized.IsRowDataCompatible /\ sized.RowCount >= 2]
    IN  Rooted(PruneAndRecompute(o,
                   MeasureRows(NewTableTemplate(~o.DontJustifyNumbers), tableRoot.Children, 1),
                   NumberMaxValue))

RECURSIVE GetTemplateComplexity(_)
GetTemplateComplexity(t) ==
    IF Len(t.Children) = 0 THEN 0
    ELSE LET cs == {GetTemplateComplexity(t.Children[i]) : i \in 1..Len(t.Children)}
         IN  1 + (CHOOSE c \in cs : \A d \in cs : d <= c)

\* TryToFit: the loop from GetTemplateComplexity() down to 0; yields whether
\* the template fits and the template as the loop left it.
RECURSIVE TryToFitFrom(_, _, _, _)
TryToFitFrom(o, t, maximumLength, complexity) ==
    IF complexity < 0 THEN [fits |-> FALSE, template |-> t]
    ELSE IF t.TotalLength <= maximumLength THEN [fits |-> TRUE, template |-> t]
    ELSE TryToFitFrom(o, PruneAndRecompute(o, t, complexity - 1), maximumLength, complexity - 1)

TryToFit(o, t, maximumLength) == TryToFitFrom(o, t, maximumLength, GetTemplateComplexity(t))

\* A throw inside a writer is carried in the buffer as this one element,
\* which is no character; the public method that sees it fails.
Thrown == "#throw#"

HasThrown(text) == \E i \in 1..Len(text) : text[i] = Thrown

\* TableTemplate.FormatNumber
FormatNumber(t, originalValueString) ==
    IF ~t.IsFormattableNumber THEN <<Thrown>>
    ELSE
    PadStart(NumberToFixed(ToNumber(originalValueString), t.maxDigitsAfterDecimal),
             t.CompositeValueLength)

-----------------------------------------------------------------------------
(* Formatter: inline writers *)

\* String.split("\n") followed by filter(line => line.length > 0)
RECURSIVE SplitRows(_, _)
SplitRows(s, cur) ==
    IF s = <<>> THEN (IF cur = <<>> THEN <<>> ELSE <<cur>>)
    ELSE IF Head(s) = "\n" THEN (IF cur = <<>> THEN <<>> ELSE <<cur>>) \o SplitRows(Tail(s), <<>>)
    ELSE SplitRows(Tail(s), Append(cur, Head(s)))

RECURSIVE LeadingWs(_, _)
LeadingWs(line, limit) ==
    IF line # <<>> /\ limit > 0 /\ IsWhitespace(Head(line)) THEN 1 + LeadingWs(Tail(line), limit - 1) ELSE 0

NormalizeMultilineComment(comment, firstLineColumn) ==
    LET normalized == SelectSeq(comment, LAMBDA c : c # "\r")
        commentRows == SplitRows(normalized, <<>>)
    IN  [i \in 1..Len(commentRows) |->
            IF i = 1 THEN commentRows[i]
            ELSE SubSeq(commentRows[i], LeadingWs(commentRows[i], firstLineColumn) + 1, Len(commentRows[i]))]

\* The index of the last child, element or not.
IndexOfLastItem(itemList) == Len(itemList)

\* Index (1-based here, 0 when there is none) of the last child that is an
\* element rather than a comment or blank line.
IndexOfLastElement(itemList) ==
    LET els == {i \in 1..Len(itemList) : ~IsCommentOrBlankLine(itemList[i].Type)}
    IN  IF els = {} THEN 0 ELSE CHOOSE i \in els : \A j \in els : j <= i

\* The postfix comment and then the comma, whatever the style of the comment.
TrailingPiecesCommaLast(o, item, includeTrailingComma) ==
    (IF item.PostfixCommentLength > 0 THEN Comment(o) \o item.PostfixComment ELSE <<>>)
    \o (IF includeTrailingComma THEN Comma(o) ELSE <<>>)

\* The comma and postfix comment that close InlineElement and StandardFormatEnd.
TrailingPieces(o, item, includeTrailingComma) ==
    (IF includeTrailingComma /\ item.IsPostCommentLineStyle THEN Comma(o) ELSE <<>>)
    \o (IF item.PostfixCommentLength > 0 THEN Comment(o) \o item.PostfixComment ELSE <<>>)
    \o (IF includeTrailingComma /\ ~item.IsPostCommentLineStyle THEN Comma(o) ELSE <<>>)

RECURSIVE InlineElement(_, _, _)
RECURSIVE InlineElementRaw(_, _)

\* InlineElementRaw writing strings without their quotation marks.
InlineElementRawUnquoted(o, item) ==
    IF IsContainer(item.Type)
    THEN LET padType == GetPaddingType(item)
             n == Len(item.Children)
         IN  Start(o, item.Type, padType)
             \o Flatten([i \in 1..n |-> InlineElement(o, item.Children[i], i < n)])
             \o End(o, item.Type, padType)
    ELSE IF item.Type = "String" THEN SubSeq(item.Value, 2, Len(item.Value) - 1)
    ELSE item.Value

InlineElementRaw(o, item) ==
    IF IsContainer(item.Type)
    THEN LET padType == GetPaddingType(item)
             n == Len(item.Children)
         IN  Start(o, item.Type, padType)
             \o Flatten([i \in 1..n |-> InlineElement(o, item.Children[i], i < n)])
             \o End(o, item.Type, padType)
    ELSE item.Value

\* InlineElement writing the colon after a name without its padding.
InlineElementBareColon(o, item, includeTrailingComma) ==
    IF item.RequiresMultipleLines THEN <<Thrown>>
    ELSE (IF item.PrefixCommentLength > 0 THEN item.PrefixComment \o Comment(o) ELSE <<>>)
         \o (IF item.NameLength > 0 THEN item.Name \o <<":">> ELSE <<>>)
         \o (IF item.MiddleCommentLength > 0 THEN item.MiddleComment \o Comment(o) ELSE <<>>)
         \o InlineElementRaw(o, item)
         \o TrailingPieces(o, item, includeTrailingComma)

InlineElement(o, item, includeTrailingComma) ==
    IF item.RequiresMultipleLines THEN <<Thrown>>
    ELSE (IF item.PrefixCommentLength > 0 THEN item.PrefixComment \o Comment(o) ELSE <<>>)
         \o (IF item.NameLength > 0 THEN item.Name \o Colon(o) ELSE <<>>)
         \o (IF item.MiddleCommentLength > 0 THEN item.MiddleComment \o Comment(o) ELSE <<>>)
         \o InlineElementRaw(o, item)
         \o TrailingPieces(o, item, includeTrailingComma)

RECURSIVE InlineTableRowSegment(_, _, _, _, _)
RECURSIVE InlineTableRawArray(_, _, _)
RECURSIVE InlineTableRawObject(_, _, _)
RECURSIVE ArrayCells(_, _, _)
RECURSIVE ObjectCells(_, _, _)

\* The pieces InlineTableRawArray writes between the brackets, one per
\* sub-template.
ArrayCells(o, template, item) ==
    LET nT == Len(template.Children)
        nI == Len(item.Children)
        cell(i) ==
            LET isLastInTemplate == (i = nT)
                isLastInArray == (i = nI)
                subTemplate == template.Children[i]
            IN  IF i > nI
                THEN Spaces(subTemplate.TotalLength)
                     \o (IF ~isLastInTemplate THEN DummyComma(o) ELSE <<>>)
                ELSE InlineTableRowSegment(o, subTemplate, item.Children[i], ~isLastInArray, FALSE)
                     \o (IF isLastInArray /\ ~isLastInTemplate THEN DummyComma(o) ELSE <<>>)
    IN  [i \in 1..nT |-> cell(i)]

InlineTableRawArray(o, template, item) ==
    ArrStart(o, template.PadType)
    \o Flatten(ArrayCells(o, template, item))
    \o ArrEnd(o, template.PadType)

\* item.Children.find(ch => ch.Name == temp.LocationInParent): index or 0
MatchingChild(item, temp) ==
    LET found == {k \in 1..Len(item.Children) : item.Children[k].Name = temp.LocationInParent}
    IN  IF found = {} THEN 0 ELSE CHOOSE x \in found : \A y \in found : x <= y

\* The pieces InlineTableRawObject writes between the brackets, one per
\* sub-template.
ObjectCells(o, template, item) ==
    LET nT == Len(template.Children)
        ji(i) == MatchingChild(item, template.Children[i])
        nonNull == {i \in 1..nT : ji(i) # 0}
        lastNonNullIdx == IF nonNull = {} THEN 0 ELSE CHOOSE i \in nonNull : \A j \in nonNull : j <= i
        cell(i) ==
            LET subTemplate == template.Children[i]
                isLastInObject == (i = lastNonNullIdx)
                isLastInTemplate == (i = nT)
            IN  IF ji(i) # 0
                THEN InlineTableRowSegment(o, subTemplate, item.Children[ji(i)], ~isLastInObject, FALSE)
                     \o (IF isLastInObject /\ ~isLastInTemplate THEN DummyComma(o) ELSE <<>>)
                ELSE Spaces(subTemplate.TotalLength)
                     \o (IF ~isLastInTemplate THEN DummyComma(o) ELSE <<>>)
    IN  [i \in 1..nT |-> cell(i)]

InlineTableRawObject(o, template, item) ==
    ObjStart(o, template.PadType)
    \o Flatten(ObjectCells(o, template, item))
    \o ObjEnd(o, template.PadType)

\* What InlineTableRowSegment writes before the value: comment, name, comment.
SegmentHead(o, template, item) ==
    (IF template.PrefixCommentLength > 0
     THEN item.PrefixComment
          \o Spaces(template.PrefixCommentLength - item.PrefixCommentLength) \o Comment(o)
     ELSE <<>>)
    \o (IF template.NameLength > 0
        THEN item.Name \o Spaces(template.NameLength - item.NameLength) \o Colon(o)
        ELSE <<>>)
    \o (IF template.MiddleCommentLength > 0
        THEN item.MiddleComment
             \o Spaces(template.MiddleCommentLength - item.MiddleCommentLength) \o Comment(o)
        ELSE <<>>)

InlineTableRowSegment(o, template, item, includeTrailingComma, isWholeRow) ==
    LET commaGoesBeforeComment == item.IsPostCommentLineStyle \/ item.PostfixCommentLength = 0
        commaPiece == IF includeTrailingComma THEN Comma(o)
                      ELSE IF isWholeRow THEN DummyComma(o) ELSE <<>>
    IN  SegmentHead(o, template, item)
        \o (IF Len(template.Children) > 0 /\ item.Type # "Null"
            THEN IF template.Type = "Array"
                 THEN InlineTableRawArray(o, template, item)
                 ELSE InlineTableRawObject(o, template, item)
            ELSE IF template.IsFormattableNumber /\ item.Type # "Null"
            THEN FormatNumber(template, item.Value)
            ELSE InlineElementRaw(o, item)
                 \o Spaces(template.CompositeValueLength - item.ValueLength))
        \o (IF commaGoesBeforeComment THEN commaPiece ELSE <<>>)
        \o (IF template.PostfixCommentLength > 0
            THEN Comment(o) \o item.PostfixComment
                 \o Spaces(template.PostfixCommentLength - item.PostfixCommentLength)
            ELSE <<>>)
        \o (IF ~commaGoesBeforeComment THEN commaPiece ELSE <<>>)

-----------------------------------------------------------------------------
(* Formatter: the four layouts.  A writer yields the text it adds to the    *)
(* buffer; FormatItem and below also yield, in visiting order, one record   *)
(* per container FormatContainer was called on.                             *)

StandardFormatStart(o, item, depth) ==
    LET head == o.PrefixString \o Indent(o, depth)
                \o (IF item.PrefixCommentLength > 0 THEN item.PrefixComment \o Comment(o) ELSE <<>>)
                \o (IF item.NameLength > 0 THEN item.Name \o Colon(o) ELSE <<>>)
        commentRows == NormalizeMultilineComment(item.MiddleComment, NumberMaxValue)
    IN  IF item.MiddleCommentLength = 0 THEN [text |-> head, depth |-> depth]
        ELSE IF ~HasNewline(item.MiddleComment)
        THEN [text |-> head \o item.MiddleComment \o Comment(o), depth |-> depth]
        ELSE [text |-> head \o EOL(o)
                       \o Flatten([i \in 1..Len(commentRows) |->
                              o.PrefixString \o Indent(o, depth + 1) \o commentRows[i] \o EOL(o)])
                       \o o.PrefixString \o Indent(o, depth + 1),
              depth |-> depth + 1]

StandardFormatEnd(o, item, includeTrailingComma) ==
    TrailingPieces(o, item, includeTrailingComma) \o EOL(o)

FormatStandaloneComment(o, item, depth) ==
    LET commentRows == NormalizeMultilineComment(item.Value, item.Column)
    IN  Flatten([i \in 1..Len(commentRows) |->
            o.PrefixString \o Indent(o, depth) \o commentRows[i] \o EOL(o)])

FormatBlankLine(o) == o.PrefixString \o EOL(o)

FormatInlineElement(o, item, depth, includeTrailingComma) ==
    o.PrefixString \o Indent(o, depth) \o InlineElement(o, item, includeTrailingComma) \o EOL(o)

FormatSplitKeyValue(o, item, depth, includeTrailingComma) ==
    StandardFormatStart(o, item, depth).text \o item.Value \o StandardFormatEnd(o, item, includeTrailingComma)

NotWritten == [ok |-> FALSE, text |-> <<>>]

\* FormatContainerInline without its limit on complexity.
FormatContainerInlineAnyComplexity(o, item, depth, includeTrailingComma) ==
    LET lengthToConsider == item.MinimumTotalLength + (IF includeTrailingComma THEN CommaLen(o) ELSE 0)
    IN  IF item.RequiresMultipleLines THEN NotWritten
        ELSE IF lengthToConsider > AvailableLineSpace(o, depth)
        THEN NotWritten
        ELSE [ok |-> TRUE,
              text |-> o.PrefixString \o Indent(o, depth)
                       \o InlineElement(o, item, includeTrailingComma) \o EOL(o)]

\* The writer that lays a short enough container on one line without asking
\* whether it requires several.
FormatContainerInlineUnasked(o, item, depth, includeTrailingComma) ==
    LET lengthToConsider == item.MinimumTotalLength + (IF includeTrailingComma THEN CommaLen(o) ELSE 0)
    IN  IF item.Complexity > o.MaxInlineComplexity \/ lengthToConsider > AvailableLineSpace(o, depth)
        THEN NotWritten
        ELSE [ok |-> TRUE,
              text |-> o.PrefixString \o Indent(o, depth)
                       \o InlineElement(o, item, includeTrailingComma) \o EOL(o)]

FormatContainerInline(o, item, depth, includeTrailingComma) ==
    LET lengthToConsider == item.MinimumTotalLength + (IF includeTrailingComma THEN CommaLen(o) ELSE 0)
    IN  IF item.RequiresMultipleLines THEN NotWritten
        ELSE IF item.Complexity > o.MaxInlineComplexity \/ lengthToConsider > AvailableLineSpace(o, depth)
        THEN NotWritten
        ELSE [ok |-> TRUE,
              text |-> o.PrefixString \o Indent(o, depth)
                       \o InlineElement(o, item, includeTrailingComma) \o EOL(o)]

\* The loop of FormatContainerCompactMultiline over the children from i on.
RECURSIVE CompactRows(_, _, _, _, _, _, _)
CompactRows(o, template, item, i, remainingLineSpace, availableLineSpace, depthAfterColon) ==
    IF i > Len(item.Children) THEN <<>>
    ELSE LET child == item.Children[i]
             needsComma == i < Len(item.Children)
             spaceNeededForNext ==
                 (IF needsComma THEN CommaLen(o) ELSE 0)
                 + (IF template.IsRowDataCompatible THEN template.TotalLength ELSE child.MinimumTotalLength)
             newLine == remainingLineSpace < spaceNeededForNext
             space == IF newLine THEN availableLineSpace ELSE remainingLineSpace
         IN  (IF newLine THEN EOL(o) \o o.PrefixString \o Indent(o, depthAfterColon + 1) ELSE <<>>)
             \o (IF template.IsRowDataCompatible
                 THEN InlineTableRowSegment(o, template, child, needsComma, FALSE)
                 ELSE InlineElement(o, child, needsComma))
             \o CompactRows(o, template, item, i + 1, space - spaceNeededForNext,
                            availableLineSpace, depthAfterColon)

FormatContainerCompactMultiline(o, item, depth, includeTrailingComma) ==
    LET likelyAvailableLineSpace == AvailableLineSpace(o, depth + 1)
        n == Len(item.Children)
        childTotal == SumSeq([i \in 1..n |-> item.Children[i].MinimumTotalLength])
        \* the method from the template's measurement on
        Written(template, start) ==
            LET \* avgItemWidth * MinCompactArrayRowItems > likelyAvailableLineSpace, with the
                \* average kept as a fraction; with no children the average is NaN and the
                \* comparison is false.
                tooWide ==
                    IF template.IsRowDataCompatible
                    THEN (CommaLen(o) + template.TotalLength) * o.MinCompactArrayRowItems
                             > likelyAvailableLineSpace
                    ELSE n > 0 /\ (CommaLen(o) * n + childTotal) * o.MinCompactArrayRowItems
                                   > likelyAvailableLineSpace * n
                depthAfterColon == start.depth
            IN  IF tooWide THEN NotWritten
                ELSE [ok |-> TRUE,
                      text |-> start.text \o Start(o, item.Type, "Empty")
                               \o CompactRows(o, template, item, 1, -1,
                                              AvailableLineSpace(o, depthAfterColon + 1), depthAfterColon)
                               \o EOL(o) \o o.PrefixString \o Indent(o, depthAfterColon)
                               \o End(o, item.Type, "Empty")
                               \o StandardFormatEnd(o, item, includeTrailingComma)]
    IN  IF item.Type # "Array" THEN NotWritten
        ELSE IF item.Complexity > o.MaxCompactArrayComplexity THEN NotWritten
        ELSE IF item.RequiresMultipleLines THEN NotWritten
        ELSE Written(MeasureTableRoot(o, item), StandardFormatStart(o, item, depth))

\* The row loop of FormatContainerTable.
TableRows(o, template, item, depthAfterColon) ==
    LET lastElementIndex == IndexOfLastElement(item.Children)
        row(i) ==
            LET rowItem == item.Children[i]
            IN  IF rowItem.Type = "BlankLine" THEN FormatBlankLine(o)
                ELSE IF rowItem.Type \in {"LineComment", "BlockComment"}
                THEN FormatStandaloneComment(o, rowItem, depthAfterColon + 1)
                ELSE o.PrefixString \o Indent(o, depthAfterColon + 1)
                     \o InlineTableRowSegment(o, template, rowItem, i < lastElementIndex, TRUE)
                     \o EOL(o)
    IN  Flatten([i \in 1..Len(item.Children) |-> row(i)])

\* The template FormatContainerTable settles on, and whether there is one.
TableTemplateFor(o, item, depth) ==
    LET availableSpace == AvailableLineSpace(o, depth + 1) - CommaLen(o)
        isChildTooLong == \E i \in 1..Len(item.Children) :
                              /\ ~IsCommentOrBlankLine(item.Children[i].Type)
                              /\ item.Children[i].MinimumTotalLength > availableSpace
        Fitted(template) ==
            IF item.Complexity > o.MaxTableRowComplexity + 1 THEN [fits |-> FALSE, template |-> template]
            ELSE IF isChildTooLong THEN [fits |-> FALSE, template |-> template]
            ELSE IF ~template.IsRowDataCompatible THEN [fits |-> FALSE, template |-> template]
            ELSE TryToFit(o, template, availableSpace)
    IN  Fitted(MeasureTableRoot(o, item))

FormatContainerTable(o, item, depth, includeTrailingComma) ==
    LET Written(chosen, start) ==
            LET depthAfterColon == start.depth
            IN  IF ~chosen.fits THEN NotWritten
                ELSE [ok |-> TRUE,
                      text |-> start.text \o Start(o, item.Type, "Empty") \o EOL(o)
                               \o TableRows(o, chosen.template, item, depthAfterColon)
                               \o o.PrefixString \o Indent(o, depthAfterColon)
                               \o End(o, item.Type, "Empty")
                               \o StandardFormatEnd(o, item, includeTrailingComma)]
    IN  Written(TableTemplateFor(o, item, depth), StandardFormatStart(o, item, depth))

RECURSIVE FormatItem(_, _, _, _)
RECURSIVE FormatContainer(_, _, _, _)
RECURSIVE FormatContainerExpanded(_, _, _, _)

FormatContainerExpanded(o, item, depth, includeTrailingComma) ==
    LET lastElementIndex == IndexOfLastElement(item.Children)
        Written(start) ==
            LET depthAfterColon == start.depth
                Closed(kids) ==
                    [text |-> start.text \o Start(o, item.Type, "Empty") \o EOL(o)
                              \o Flatten([i \in 1..Len(kids) |-> kids[i].text])
                              \o o.PrefixString \o Indent(o, depthAfterColon)
                              \o End(o, item.Type, "Empty")
                              \o StandardFormatEnd(o, item, includeTrailingComma),
                     lay |-> Flatten([i \in 1..Len(kids) |-> kids[i].lay])]
            IN  Closed([i \in 1..Len(item.Children) |->
                           FormatItem(o, item.Children[i], depthAfterColon + 1, i < lastElementIndex)])
    IN  Written(StandardFormatStart(o, item, depth))

Visited(item, depth, includeTrailingComma, layout, tried) ==
    [item |-> item, depth |-> depth, comma |-> includeTrailingComma, layout |-> layout, tried |-> tried]

\* FormatContainer trying the table before the one-line layout.
FormatContainerTableFirst(o, item, depth, includeTrailingComma) ==
    LET deeper == depth > o.AlwaysExpandDepth
        atOrDeeper == depth >= o.AlwaysExpandDepth
        note(layout, tried) == <<Visited(item, depth, includeTrailingComma, layout, tried)>>
        \* the layouts attempted up to and including each one
        upToTable == IF atOrDeeper THEN <<"Table">> ELSE <<>>
        upToInline == upToTable \o (IF deeper THEN <<"Inline">> ELSE <<>>)
        upToMultilineCompact == upToInline \o (IF deeper THEN <<"MultilineCompact">> ELSE <<>>)
        \* if (permitted && <the layout's method wrote it>) return; otherwise go on
        Attempt(permitted, written, layout, tried, otherwise) ==
            IF permitted /\ written.ok THEN [text |-> written.text, lay |-> note(layout, tried)]
            ELSE otherwise
        Expanded(exp) == [text |-> exp.text, lay |-> note("Expanded", upToMultilineCompact) \o exp.lay]
    IN  Attempt(atOrDeeper, FormatContainerTable(o, item, depth, includeTrailingComma), "Table", upToTable,
        Attempt(deeper, FormatContainerInline(o, item, depth, includeTrailingComma), "Inline", upToInline,
        Attempt(deeper, FormatContainerCompactMultiline(o, item, depth, includeTrailingComma), "MultilineCompact", upToMultilineCompact,
        Expanded(FormatContainerExpanded(o, item, depth, includeTrailingComma)))))

\* FormatContainer trying the one-line layouts at AlwaysExpandDepth too.
FormatContainerInlineAtDepth(o, item, depth, includeTrailingComma) ==
    LET deeper == depth >= o.AlwaysExpandDepth
        atOrDeeper == depth >= o.AlwaysExpandDepth
        note(layout, tried) == <<Visited(item, depth, includeTrailingComma, layout, tried)>>
        \* the layouts attempted up to and including each one
        upToInline == IF deeper THEN <<"Inline">> ELSE <<>>
        upToMultilineCompact == upToInline \o (IF deeper THEN <<"MultilineCompact">> ELSE <<>>)
        upToTable == upToMultilineCompact \o (IF atOrDeeper THEN <<"Table">> ELSE <<>>)
        \* if (permitted && <the layout's method wrote it>) return; otherwise go on
        Attempt(permitted, written, layout, tried, otherwise) ==
            IF permitted /\ written.ok THEN [text |-> written.text, lay |-> note(layout, tried)]
            ELSE otherwise
        Expanded(exp) == [text |-> exp.text, lay |-> note("Expanded", upToTable) \o exp.lay]
    IN  Attempt(deeper, FormatContainerInline(o, item, depth, includeTrailingComma), "Inline", upToInline,
        Attempt(deeper, FormatContainerCompactMultiline(o, item, depth, includeTrailingComma), "MultilineCompact", upToMultilineCompact,
        Attempt(atOrDeeper, FormatContainerTable(o, item, depth, includeTrailingComma), "Table", upToTable,
        Expanded(FormatContainerExpanded(o, item, depth, includeTrailingComma)))))

\* FormatContainer trying the table one level before AlwaysExpandDepth.
FormatContainerTableAbove(o, item, depth, includeTrailingComma) ==
    LET deeper == depth > o.AlwaysExpandDepth
        atOrDeeper == depth >= o.AlwaysExpandDepth - 1
        note(layout, tried) == <<Visited(item, depth, includeTrailingComma, layout, tried)>>
        \* the layouts attempted up to and including each one
        upToInline == IF deeper THEN <<"Inline">> ELSE <<>>
        upToMultilineCompact == upToInline \o (IF deeper THEN <<"MultilineCompact">> ELSE <<>>)
        upToTable == upToMultilineCompact \o (IF atOrDeeper THEN <<"Table">> ELSE <<>>)
        \* if (permitted && <the layout's method wrote it>) return; otherwise go on
        Attempt(permitted, written, layout, tried, otherwise) ==
            IF permitted /\ written.ok THEN [text |-> written.text, lay |-> note(layout, tried)]
            ELSE otherwise
        Expanded(exp) == [text |-> exp.text, lay |-> note("Expanded", upToTable) \o exp.lay]
    IN  Attempt(deeper, FormatContainerInline(o, item, depth, includeTrailingComma), "Inline", upToInline,
        Attempt(deeper, FormatContainerCompactMultiline(o, item, depth, includeTrailingComma), "MultilineCompact", upToMultilineCompact,
        Attempt(atOrDeeper, FormatContainerTable(o, item, depth, includeTrailingComma), "Table", upToTable,
        Expanded(FormatContainerExpanded(o, item, depth, includeTrailingComma)))))

FormatContainer(o, item, depth, includeTrailingComma) ==
    LET deeper == depth > o.AlwaysExpandDepth
        atOrDeeper == depth >= o.AlwaysExpandDepth
        note(layout, tried) == <<Visited(item, depth, includeTrailingComma, layout, tried)>>
        \* the layouts attempted up to and including each one
        upToInline == IF deeper THEN <<"Inline">> ELSE <<>>
        upToMultilineCompact == upToInline \o (IF deeper THEN <<"MultilineCompact">> ELSE <<>>)
        upToTable == upToMultilineCompact \o (IF atOrDeeper THEN <<"Table">> ELSE <<>>)
        \* if (permitted && <the layout's method wrote it>) return; otherwise go on
        Attempt(permitted, written, layout, tried, otherwise) ==
            IF permitted /\ written.ok THEN [text |-> written.text, lay |-> note(layout, tried)]
            ELSE otherwise
        Expanded(exp) == [text |-> exp.text, lay |-> note("Expanded", upToTable) \o exp.lay]
    IN  Attempt(deeper, FormatContainerInline(o, item, depth, includeTrailingComma), "Inline", upToInline,
        Attempt(deeper, FormatContainerCompactMultiline(o, item, depth, includeTrailingComma), "MultilineCompact", upToMultilineCompact,
        Attempt(atOrDeeper, FormatContainerTable(o, item, depth, includeTrailingComma), "Table", upToTable,
        Expanded(FormatContainerExpanded(o, item, depth, includeTrailingComma)))))

FormatItem(o, item, depth, includeTrailingComma) ==
    IF IsContainer(item.Type) THEN FormatContainer(o, item, depth, includeTrailingComma)
    ELSE IF item.Type = "BlankLine" THEN [text |-> FormatBlankLine(o), lay |-> <<>>]
    ELSE IF item.Type \in {"BlockComment", "LineComment"}
    THEN [text |-> FormatStandaloneComment(o, item, depth), lay |-> <<>>]
    ELSE IF item.RequiresMultipleLines
    THEN [text |-> FormatSplitKeyValue(o, item, depth, includeTrailingComma), lay |-> <<>>]
    ELSE [text |-> FormatInlineElement(o, item, depth, includeTrailingComma), lay |-> <<>>]

\* Formatter.FormatTopLevel with startingDepth 0
FormatTopLevel(o, docModel) ==
    LET Joined(parts) ==
            [text |-> Flatten([i \in 1..Len(parts) |-> parts[i].text]),
             lay |-> Flatten([i \in 1..Len(parts) |-> parts[i].lay])]
    IN  Joined([i \in 1..Len(docModel) |-> FormatItem(o, ComputeItemLengths(o, docModel[i]), 0, FALSE)])

\* Formatter.MinifyItem; yields the text and the atStartOfNewLine result.
RECURSIVE MinifyItem(_, _)
RECURSIVE MinifyChildren(_, _, _, _)
MinifyChildren(children, i, needsComma, atStartOfNewLine) ==
    IF i > Len(children) THEN <<>>
    ELSE LET child == children[i]
             isElem == ~IsCommentOrBlankLine(child.Type)
             m == MinifyItem(child, atStartOfNewLine)
         IN  (IF isElem /\ needsComma THEN <<",">> ELSE <<>>)
             \o m.text
             \o MinifyChildren(children, i + 1, needsComma \/ isElem, m.atStart)

MinifyItem(item, atStartOfNewLine) ==
    LET middleRows == NormalizeMultilineComment(item.MiddleComment, NumberMaxValue)
        head == item.PrefixComment
                \o (IF Len(item.Name) > 0 THEN item.Name \o <<":">> ELSE <<>>)
                \o (IF HasNewline(item.MiddleComment)
                    THEN Flatten([i \in 1..Len(middleRows) |-> middleRows[i] \o <<"\n">>])
                    ELSE item.MiddleComment)
        lead == IF ~atStartOfNewLine THEN <<"\n">> ELSE <<>>
        valueRows == NormalizeMultilineComment(item.Value, item.Column)
        tail == item.PostfixComment
        lineEnd == Len(item.PostfixComment) > 0 /\ item.IsPostCommentLineStyle
    IN  IF item.Type = "BlankLine"
        THEN [text |-> head \o lead \o <<"\n">>, atStart |-> TRUE]
        ELSE IF item.Type = "LineComment"
        THEN [text |-> head \o lead \o item.Value \o <<"\n">>, atStart |-> TRUE]
        ELSE IF item.Type = "BlockComment"
        THEN [text |-> head \o lead
                       \o (IF HasNewline(item.Value)
                           THEN Flatten([i \in 1..Len(valueRows) |-> valueRows[i] \o <<"\n">>])
                           ELSE item.Value \o <<"\n">>),
              atStart |-> TRUE]
        ELSE [text |-> head
                       \o (IF IsContainer(item.Type)
                           THEN (IF item.Type = "Array" THEN <<"[">> ELSE <<"{">>)
                                \o MinifyChildren(item.Children, 1, FALSE, FALSE)
                                \o (IF item.Type = "Array" THEN <<"]">> ELSE <<"}">>)
                           ELSE item.Value)
                       \o tail \o (IF lineEnd THEN <<"\n">> ELSE <<>>),
              atStart |-> lineEnd]

\* Formatter.MinifyTopLevel
RECURSIVE MinifyTopLevel(_, _, _)
MinifyTopLevel(docModel, i, atStartOfNewLine) ==
    IF i > Len(docModel) THEN <<>>
    ELSE LET m == MinifyItem(docModel[i], atStartOfNewLine)
         IN  m.text \o MinifyTopLevel(docModel, i + 1, m.atStart)

-----------------------------------------------------------------------------
(* TokenGenerator over ScannerState.  Positions in the text are 1-based     *)
(* here; rows and columns are the program's, 0-based.  A throw ends the     *)
(* token stream with a token of type Error carrying the message.            *)

\* ScannerState.Current(): the character at the position, or none at the end.
Current(text, i) == IF i >= 1 /\ i <= Len(text) THEN text[i] ELSE "NaN"
AtEnd(text, i) == i > Len(text)

isHex(ch) == isDigit(ch) \/ ch \in {"a", "b", "c", "d", "e", "f", "A", "B", "C", "D", "E", "F"}
isLegalAfterBackslash(ch) == ch \in {"\"", "\\", "/", "b", "f", "n", "r", "t", "u"}
isControl(ch) == ch \in {"\n", "\r", "\t"}

MakeToken(type, text, row, col) == [Type |-> type, Text |-> text, Row |-> row, Column |-> col]

\* ProcessKeyword: "" when the keyword is read, else the message thrown.
ProcessKeyword(text, i, keyword) ==
    LET bad == {k \in 1..(Len(keyword) - 1) :
                   AtEnd(text, i + k - 1) \/ Current(text, i + k) # keyword[k + 1]}
        k == CHOOSE x \in bad : \A y \in bad : x <= y
    IN  IF bad = {} THEN ""
        ELSE IF AtEnd(text, i + k - 1) THEN "Unexpected end of input while processing keyword"
        ELSE "Unexpected keyword"

\* ProcessString from the character after the opening quote: the position
\* after the closing quote, or the message thrown.
RECURSIVE ProcessString(_, _, _, _)
ProcessString(text, j, lastCharBeganEscape, expectedHexCount) ==
    LET ch == Current(text, j)
    IN  IF AtEnd(text, j) THEN [err |-> "Unexpected end of input while processing string", next |-> j]
        ELSE IF expectedHexCount > 0
        THEN IF ~isHex(ch) THEN [err |-> "Bad unicode escape in string", next |-> j]
             ELSE ProcessString(text, j + 1, FALSE, expectedHexCount - 1)
        ELSE IF lastCharBeganEscape
        THEN IF ~isLegalAfterBackslash(ch) THEN [err |-> "Bad escaped character in string", next |-> j]
             ELSE ProcessString(text, j + 1, FALSE, IF ch = "u" THEN 4 ELSE 0)
        ELSE IF isControl(ch) THEN [err |-> "Control characters are not allowed in strings", next |-> j]
        ELSE IF ch = "\"" THEN [err |-> "", next |-> j + 1]
        ELSE ProcessString(text, j + 1, ch = "\\", 0)

\* ProcessNumber: the position after the number, or the message thrown.
RECURSIVE ProcessNumber(_, _, _)
ProcessNumber(text, j, phase) ==
    LET ch == Current(text, j)
        isE == ch \in {"e", "E"}
        step ==
            CASE phase = "Beginning" ->
                    IF ch = "-" THEN "PastLeadingSign"
                    ELSE IF ch = "0" THEN "PastWhole"
                    ELSE IF isDigit(ch) THEN "PastFirstDigitOfWhole" ELSE "InvalidatesToken"
              [] phase = "PastLeadingSign" ->
                    IF ~isDigit(ch) THEN "InvalidatesToken"
                    ELSE IF ch = "0" THEN "PastWhole" ELSE "PastFirstDigitOfWhole"
              [] phase = "PastFirstDigitOfWhole" ->
                    IF ch = "." THEN "PastDecimalPoint"
                    ELSE IF isE THEN "PastE"
                    ELSE IF ~isDigit(ch) THEN "StartOfNewToken" ELSE phase
              [] phase = "PastWhole" ->
                    IF ch = "." THEN "PastDecimalPoint"
                    ELSE IF isE THEN "PastE" ELSE "StartOfNewToken"
              [] phase = "PastDecimalPoint" ->
                    IF isDigit(ch) THEN "PastFirstDigitOfFractional" ELSE "InvalidatesToken"
              [] phase = "PastFirstDigitOfFractional" ->
                    IF isE THEN "PastE"
                    ELSE IF ~isDigit(ch) THEN "StartOfNewToken" ELSE phase
              [] phase = "PastE" ->
                    IF ch \in {"+", "-"} THEN "PastExpSign"
                    ELSE IF isDigit(ch) THEN "PastFirstDigitOfExponent" ELSE "InvalidatesToken"
              [] phase = "PastExpSign" ->
                    IF isDigit(ch) THEN "PastFirstDigitOfExponent" ELSE "InvalidatesToken"
              [] phase = "PastFirstDigitOfExponent" ->
                    IF ~isDigit(ch) THEN "StartOfNewToken" ELSE phase
    IN  IF step = "InvalidatesToken" THEN [err |-> "Bad character while processing number", next |-> j]
        ELSE IF step = "StartOfNewToken" THEN [err |-> "", next |-> j]
        ELSE IF ~AtEnd(text, j) THEN ProcessNumber(text, j + 1, step)
        ELSE IF step \in {"PastFirstDigitOfWhole", "PastWhole", "PastFirstDigitOfFractional",
                          "PastFirstDigitOfExponent"}
        THEN [err |-> "", next |-> j]
        ELSE [err |-> "Unexpected end of input while processing number", next |-> j]

\* The loop of ProcessComment after the two opening characters.
RECURSIVE CommentBody(_, _, _, _, _, _)
CommentBody(text, j, row, col, isBlockComment, lastCharWasAsterisk) ==
    LET ch == Current(text, j)
    IN  IF AtEnd(text, j)
        THEN IF isBlockComment
             THEN [err |-> "Unexpected end of input while processing comment", next |-> j, row |-> row, col |-> col]
             ELSE [err |-> "", next |-> j, row |-> row, col |-> col]
        ELSE IF ch = "\n"
        THEN IF ~isBlockComment THEN [err |-> "", next |-> j + 1, row |-> row + 1, col |-> 0]
             ELSE CommentBody(text, j + 1, row + 1, 0, isBlockComment, lastCharWasAsterisk)
        ELSE IF ch = "/" /\ lastCharWasAsterisk
        THEN [err |-> "", next |-> j + 1, row |-> row, col |-> col + 1]
        ELSE CommentBody(text, j + 1, row, col + 1, isBlockComment, ch = "*")

ProcessComment(text, i, row, col) ==
    LET second == Current(text, i + 1)
    IN  IF second \notin {"*", "/"}
        THEN [err |-> "Bad character for start of comment", next |-> i + 1, row |-> row, col |-> col + 1]
        ELSE CommentBody(text, i + 2, row, col + 2, second = "*", FALSE)

SingleCharTokens ==
    [ch \in {"{", "}", "[", "]", ":", ","} |->
        CASE ch = "{" -> "BeginObject" [] ch = "}" -> "EndObject"
          [] ch = "[" -> "BeginArray" [] ch = "]" -> "EndArray"
          [] ch = ":" -> "Colon" [] ch = "," -> "Comma"]

Keywords ==
    [ch \in {"t", "f", "n"} |->
        CASE ch = "t" -> [word |-> <<"t", "r", "u", "e">>, type |-> "True"]
          [] ch = "f" -> [word |-> <<"f", "a", "l", "s", "e">>, type |-> "False"]
          [] ch = "n" -> [word |-> <<"n", "u", "l", "l">>, type |-> "Null"]]

\* The run of spaces, tabs and carriage returns from i on: the position
\* after it.  Each is one Advance(true).
RECURSIVE SkipWhitespace(_, _)
SkipWhitespace(text, i) ==
    IF Current(text, i) \in {" ", "\t", "\r"} THEN SkipWhitespace(text, i + 1) ELSE i

\* One turn of the generator's loop at a character that is not plain
\* whitespace: the tokens yielded (none, one, or an Error) and the scanner
\* state afterwards.  st holds ScannerState: CurrentPosition (i, row, col),
\* NonWhitespaceSinceLastNewline and TokenPosition (tokRow, tokCol).
ScanOne(text, st) ==
    LET i == st.i
        row == st.row
        col == st.col
        ch == Current(text, i)
        fail(msg) == [toks |-> <<MakeToken("Error", msg, row, col)>>, st |-> [st EXCEPT !.i = Len(text) + 1]]
        made(type, tokText, next, nextRow, nextCol, nonWs) ==
            [toks |-> <<MakeToken(type, tokText, row, col)>>,
             st |-> [i |-> next, row |-> nextRow, col |-> nextCol, nonWs |-> nonWs,
                     tokRow |-> row, tokCol |-> col]]
        kw == Keywords[ch]
        kwErr == ProcessKeyword(text, i, kw.word)
        str == ProcessString(text, i + 1, FALSE, 0)
        num == ProcessNumber(text, i, "Beginning")
        cmt == ProcessComment(text, i, row, col)
        cmtText == SubSeq(text, i, cmt.next - 1)
        isLine == Current(text, i + 1) = "/"
    IN  IF ch = "\n"
        THEN [toks |-> IF ~st.nonWs THEN <<MakeToken("BlankLine", <<"\n">>, st.tokRow, st.tokCol)>> ELSE <<>>,
              st |-> [i |-> i + 1, row |-> row + 1, col |-> 0, nonWs |-> FALSE,
                      tokRow |-> row + 1, tokCol |-> 0]]
        ELSE IF ch \in DOMAIN SingleCharTokens
        THEN made(SingleCharTokens[ch], <<ch>>, i + 1, row, col + 1, TRUE)
        ELSE IF ch \in DOMAIN Keywords
        THEN IF kwErr # "" THEN fail(kwErr)
             ELSE made(kw.type, kw.word, i + Len(kw.word), row, col + Len(kw.word), TRUE)
        ELSE IF ch = "/"
        THEN IF cmt.err # "" THEN fail(cmt.err)
             ELSE made(IF isLine THEN "LineComment" ELSE "BlockComment",
                       IF isLine THEN TrimEnd(cmtText) ELSE cmtText,
                       cmt.next, cmt.row, cmt.col, cmt.col > 0)
        ELSE IF ch = "\""
        THEN IF str.err # "" THEN fail(str.err)
             ELSE made("String", SubSeq(text, i, str.next - 1), str.next, row, col + (str.next - i), TRUE)
        ELSE IF ch = "-" \/ isDigit(ch)
        THEN IF num.err # "" THEN fail(num.err)
             ELSE made("Number", SubSeq(text, i, num.next - 1), num.next, row, col + (num.next - i), TRUE)
        ELSE fail("Unexpected character")

RECURSIVE TokenGenerator(_, _)
TokenGenerator(text, st) ==
    LET i == SkipWhitespace(text, st.i)
        one == ScanOne(text, [st EXCEPT !.i = i, !.col = st.col + (i - st.i)])
    IN  IF AtEnd(text, i) THEN <<>> ELSE one.toks \o TokenGenerator(text, one.st)

Tokenize(inputJson) ==
    TokenGenerator(inputJson, [i |-> 1, row |-> 0, col |-> 0, nonWs |-> FALSE, tokRow |-> 0, tokCol |-> 0])

-----------------------------------------------------------------------------
(* Parser.  `pos` is the index of the enumerator's current token; a parse   *)
(* yields err (the message thrown, "" if none), the item and the position   *)
(* the enumerator is left at.                                               *)

SimpleTokenTypes == {"False", "True", "Null", "Number", "String", "BlankLine", "BlockComment", "LineComment"}

\* Parser.ParseSimple, for the token types ItemTypeFromTokenType accepts
ParseSimple(token) ==
    [NewJsonItem EXCEPT !.Type = token.Type, !.Value = token.Text,
                        !.Row = token.Row, !.Column = token.Column, !.Complexity = 0]

IsMultilineComment(item) == item.Type = "BlockComment" /\ HasNewline(item.Value)

Threw(msg, pos) == [err |-> msg, item |-> NewJsonItem, pos |-> pos]

\* MoveNext fails: the stream is exhausted, or the generator throws.
NoNextToken(toks, pos) == pos + 1 > Len(toks)
NextTokenThrows(toks, pos) == pos + 1 <= Len(toks) /\ toks[pos + 1].Type = "Error"

ElementStartTypes == {"False", "True", "Null", "String", "Number", "BeginArray", "BeginObject"}

\* Parser.AttachObjectValuePieces: the child list with the property and the
\* comments around it appended.
AttachObjectValuePieces(objItemList, name, element, valueEndingLine, beforeComments, midComments, afterComment) ==
    LET nMid == Len(midComments)
        combined == Flatten([i \in 1..nMid |->
                        midComments[i].Text
                        \o (IF i < nMid \/ midComments[i].Type = "LineComment" THEN <<"\n">> ELSE <<>>)])
        nBefore == Len(beforeComments)
        lastOfBefore == beforeComments[nBefore]
        others == SubSeq(beforeComments, 1, nBefore - 1)
        takesPrefix == nBefore > 0 /\ lastOfBefore.Type = "BlockComment" /\ lastOfBefore.Row = element.Row
        takesPostfix == afterComment # <<>> /\ ~IsMultilineComment(afterComment[1])
                        /\ afterComment[1].Row = valueEndingLine
        named == [element EXCEPT
                    !.Name = name.Text,
                    !.MiddleComment = IF nMid > 0 THEN combined ELSE element.MiddleComment,
                    !.PrefixComment = IF takesPrefix THEN lastOfBefore.Value ELSE element.PrefixComment,
                    !.PostfixComment = IF takesPostfix THEN afterComment[1].Value ELSE element.PostfixComment,
                    !.IsPostCommentLineStyle =
                        IF takesPostfix THEN afterComment[1].Type = "LineComment"
                        ELSE element.IsPostCommentLineStyle]
    IN  objItemList
        \o (IF nBefore = 0 THEN <<>> ELSE IF takesPrefix THEN others ELSE beforeComments)
        \o <<named>>
        \o (IF afterComment # <<>> /\ ~takesPostfix THEN afterComment ELSE <<>>)

RECURSIVE ParseItem(_, _, _)
RECURSIVE ArrayLoop(_, _, _)
RECURSIVE ObjectLoop(_, _, _)

\* The while loop of ParseArray; st holds its locals.
ArrayLoop(o, toks, st) ==
    IF NoNextToken(toks, st.pos)
    THEN Threw("Unexpected end of input while processing array or object starting", st.pos)
    ELSE IF NextTokenThrows(toks, st.pos) THEN Threw(toks[st.pos + 1].Text, st.pos + 1)
    ELSE
    LET pos == st.pos + 1
        token == toks[pos]
        unplacedCommentNeedsHome ==
            st.unplacedComment # <<>>
            /\ (st.unplacedComment[1].Row # token.Row \/ token.Type = "EndArray")
        homed ==
            IF ~unplacedCommentNeedsHome THEN st.childList
            ELSE IF st.elemNeedingPostComment # 0
            THEN [st.childList EXCEPT
                    ![st.elemNeedingPostComment].PostfixComment = st.unplacedComment[1].Value,
                    ![st.elemNeedingPostComment].IsPostCommentLineStyle =
                        (st.unplacedComment[1].Type = "LineComment")]
            ELSE Append(st.childList, st.unplacedComment[1])
        unplaced == IF unplacedCommentNeedsHome THEN <<>> ELSE st.unplacedComment
        elem == IF st.elemNeedingPostComment # 0 /\ st.elemNeedingPostEndRow # token.Row
                THEN 0 ELSE st.elemNeedingPostComment
        s1 == [st EXCEPT !.pos = pos, !.childList = homed, !.unplacedComment = unplaced,
                         !.elemNeedingPostComment = elem]
        commentItem == ParseSimple(token)
        sub == ParseItem(o, toks, pos)
        element == IF unplaced # <<>> THEN [sub.item EXCEPT !.PrefixComment = unplaced[1].Value]
                   ELSE sub.item
    IN  CASE token.Type = "EndArray" ->
                IF st.commaStatus = "CommaSeen" /\ ~o.AllowTrailingCommas
                THEN Threw("Array may not end with a comma with current options", pos)
                ELSE [err |-> "",
                      item |-> [NewJsonItem EXCEPT !.Type = "Array", !.Row = st.startRow,
                                                   !.Column = st.startColumn,
                                                   !.Complexity = st.thisArrayComplexity,
                                                   !.Children = homed],
                      pos |-> pos]
          [] token.Type = "Comma" ->
                IF st.commaStatus # "ElementSeen" THEN Threw("Unexpected comma in array", pos)
                ELSE ArrayLoop(o, toks, [s1 EXCEPT !.commaStatus = "CommaSeen"])
          [] token.Type = "BlankLine" ->
                IF ~o.PreserveBlankLines THEN ArrayLoop(o, toks, s1)
                ELSE ArrayLoop(o, toks, [s1 EXCEPT !.childList = Append(homed, ParseSimple(token))])
          [] token.Type = "BlockComment" ->
                IF o.CommentPolicy = "Remove" THEN ArrayLoop(o, toks, s1)
                ELSE IF o.CommentPolicy = "TreatAsError"
                THEN Threw("Comments not allowed with current options", pos)
                ELSE LET made == homed \o unplaced
                     IN  IF IsMultilineComment(commentItem)
                         THEN ArrayLoop(o, toks, [s1 EXCEPT !.childList = Append(made, commentItem),
                                                           !.unplacedComment = <<>>])
                         ELSE IF elem # 0 /\ st.commaStatus = "ElementSeen"
                         THEN ArrayLoop(o, toks,
                                [s1 EXCEPT !.childList =
                                               [made EXCEPT ![elem].PostfixComment = commentItem.Value,
                                                            ![elem].IsPostCommentLineStyle = FALSE],
                                           !.unplacedComment = <<>>,
                                           !.elemNeedingPostComment = 0])
                         ELSE ArrayLoop(o, toks, [s1 EXCEPT !.childList = made,
                                                           !.unplacedComment = <<commentItem>>])
          [] token.Type = "LineComment" ->
                IF o.CommentPolicy = "Remove" THEN ArrayLoop(o, toks, s1)
                ELSE IF o.CommentPolicy = "TreatAsError"
                THEN Threw("Comments not allowed with current options", pos)
                ELSE IF unplaced # <<>>
                THEN ArrayLoop(o, toks, [s1 EXCEPT !.childList = homed \o unplaced \o <<commentItem>>,
                                                  !.unplacedComment = <<>>])
                ELSE IF elem # 0
                THEN ArrayLoop(o, toks,
                        [s1 EXCEPT !.childList = [homed EXCEPT ![elem].PostfixComment = token.Text,
                                                               ![elem].IsPostCommentLineStyle = TRUE],
                                   !.elemNeedingPostComment = 0])
                ELSE ArrayLoop(o, toks, [s1 EXCEPT !.childList = Append(homed, commentItem)])
          [] token.Type \in ElementStartTypes ->
                IF st.commaStatus = "ElementSeen" THEN Threw("Comma missing while processing array", pos)
                ELSE IF sub.err # "" THEN sub
                ELSE ArrayLoop(o, toks,
                        [s1 EXCEPT !.pos = sub.pos,
                                   !.commaStatus = "ElementSeen",
                                   !.thisArrayComplexity = Max(st.thisArrayComplexity, element.Complexity + 1),
                                   !.unplacedComment = <<>>,
                                   !.childList = Append(homed, element),
                                   !.elemNeedingPostComment = Len(homed) + 1,
                                   !.elemNeedingPostEndRow = toks[sub.pos].Row])
          [] OTHER -> Threw("Unexpected token in array", pos)

\* ParseArray entered as if an element had already been read.
ParseArrayAfterElement(o, toks, pos) ==
    ArrayLoop(o, toks,
        [pos |-> pos, startRow |-> toks[pos].Row, startColumn |-> toks[pos].Column,
         elemNeedingPostComment |-> 0, elemNeedingPostEndRow |-> -1, unplacedComment |-> <<>>,
         childList |-> <<>>, commaStatus |-> "ElementSeen", thisArrayComplexity |-> 0])

ParseArray(o, toks, pos) ==
    ArrayLoop(o, toks,
        [pos |-> pos, startRow |-> toks[pos].Row, startColumn |-> toks[pos].Column,
         elemNeedingPostComment |-> 0, elemNeedingPostEndRow |-> -1, unplacedComment |-> <<>>,
         childList |-> <<>>, commaStatus |-> "EmptyCollection", thisArrayComplexity |-> 0])

\* The while loop of ParseObject; st holds its locals.
ObjectLoop(o, toks, st) ==
    IF NoNextToken(toks, st.pos)
    THEN Threw("Unexpected end of input while processing array or object starting", st.pos)
    ELSE IF NextTokenThrows(toks, st.pos) THEN Threw(toks[st.pos + 1].Text, st.pos + 1)
    ELSE
    LET pos == st.pos + 1
        token == toks[pos]
        isNewLine == st.linePropValueEnds # token.Row
        isEndOfObject == token.Type = "EndObject"
        startingNextPropName == token.Type = "String" /\ st.phase = "AfterComma"
        isExcessPostComment == st.afterPropComment # <<>> /\ token.Type \in {"BlockComment", "LineComment"}
        needToFlush == st.propertyName # <<>> /\ st.propertyValue # <<>>
                       /\ (isNewLine \/ isEndOfObject \/ startingNextPropName \/ isExcessPostComment)
        holdForNext == startingNextPropName /\ st.afterPropCommentWasAfterComma /\ ~isNewLine
        s1 == IF ~needToFlush THEN [st EXCEPT !.pos = pos]
              ELSE [st EXCEPT
                      !.pos = pos,
                      !.childList =
                          AttachObjectValuePieces(st.childList, st.propertyName[1], st.propertyValue[1],
                              st.linePropValueEnds, st.beforePropComments, st.midPropComments,
                              IF holdForNext THEN <<>> ELSE st.afterPropComment),
                      !.thisObjComplexity = Max(st.thisObjComplexity, st.propertyValue[1].Complexity + 1),
                      !.propertyName = <<>>,
                      !.propertyValue = <<>>,
                      !.beforePropComments = IF holdForNext THEN st.afterPropComment ELSE <<>>,
                      !.midPropComments = <<>>,
                      !.afterPropComment = <<>>]
        sub == ParseItem(o, toks, pos)
        valueParsed == IF sub.err # "" THEN sub
                       ELSE ObjectLoop(o, toks, [s1 EXCEPT !.pos = sub.pos,
                                                          !.propertyValue = <<sub.item>>,
                                                          !.linePropValueEnds = toks[sub.pos].Row,
                                                          !.phase = "AfterPropValue"])
    IN  CASE token.Type = "BlankLine" ->
                IF ~o.PreserveBlankLines \/ s1.phase \in {"AfterPropName", "AfterColon"}
                THEN ObjectLoop(o, toks, s1)
                ELSE ObjectLoop(o, toks,
                        [s1 EXCEPT !.childList = s1.childList \o s1.beforePropComments \o <<ParseSimple(token)>>,
                                   !.beforePropComments = <<>>])
          [] token.Type \in {"BlockComment", "LineComment"} ->
                IF o.CommentPolicy = "Remove" THEN ObjectLoop(o, toks, s1)
                ELSE IF o.CommentPolicy = "TreatAsError"
                THEN Threw("Comments not allowed with current options", pos)
                ELSE IF s1.phase = "BeforePropName" \/ s1.propertyName = <<>>
                THEN ObjectLoop(o, toks,
                        [s1 EXCEPT !.beforePropComments = Append(s1.beforePropComments, ParseSimple(token))])
                ELSE IF s1.phase \in {"AfterPropName", "AfterColon"}
                THEN ObjectLoop(o, toks, [s1 EXCEPT !.midPropComments = Append(s1.midPropComments, token)])
                ELSE ObjectLoop(o, toks,
                        [s1 EXCEPT !.afterPropComment = <<ParseSimple(token)>>,
                                   !.afterPropCommentWasAfterComma = (s1.phase = "AfterComma")])
          [] token.Type = "EndObject" ->
                IF ~o.AllowTrailingCommas /\ s1.phase = "AfterComma"
                THEN Threw("Object may not end with comma with current options", pos)
                ELSE [err |-> "",
                      item |-> [NewJsonItem EXCEPT !.Type = "Object", !.Row = st.startRow,
                                                   !.Column = st.startColumn,
                                                   !.Complexity = s1.thisObjComplexity,
                                                   !.Children = s1.childList],
                      pos |-> pos]
          [] token.Type = "String" ->
                IF s1.phase \in {"BeforePropName", "AfterComma"}
                THEN ObjectLoop(o, toks, [s1 EXCEPT !.propertyName = <<token>>, !.phase = "AfterPropName"])
                ELSE IF s1.phase = "AfterColon" THEN valueParsed
                ELSE Threw("Unexpected string found while processing object", pos)
          [] token.Type \in {"False", "True", "Null", "Number", "BeginArray", "BeginObject"} ->
                IF s1.phase # "AfterColon" THEN Threw("Unexpected element while processing object", pos)
                ELSE valueParsed
          [] token.Type = "Colon" ->
                IF s1.phase # "AfterPropName" THEN Threw("Unexpected colon while processing object", pos)
                ELSE ObjectLoop(o, toks, [s1 EXCEPT !.phase = "AfterColon"])
          [] token.Type = "Comma" ->
                IF s1.phase # "AfterPropValue" THEN Threw("Unexpected comma while processing object", pos)
                ELSE ObjectLoop(o, toks, [s1 EXCEPT !.phase = "AfterComma"])
          [] OTHER -> Threw("Unexpected token while processing object", pos)

ParseObject(o, toks, pos) ==
    ObjectLoop(o, toks,
        [pos |-> pos, startRow |-> toks[pos].Row, startColumn |-> toks[pos].Column,
         childList |-> <<>>, propertyName |-> <<>>, propertyValue |-> <<>>,
         linePropValueEnds |-> -1, beforePropComments |-> <<>>, midPropComments |-> <<>>,
         afterPropComment |-> <<>>, afterPropCommentWasAfterComma |-> FALSE,
         phase |-> "BeforePropName", thisObjComplexity |-> 0])

ParseItem(o, toks, pos) ==
    IF toks[pos].Type = "BeginArray" THEN ParseArray(o, toks, pos)
    ELSE IF toks[pos].Type = "BeginObject" THEN ParseObject(o, toks, pos)
    ELSE IF toks[pos].Type \in SimpleTokenTypes
    THEN [err |-> "", item |-> ParseSimple(toks[pos]), pos |-> pos]
    ELSE Threw("Unexpected Token", pos)

\* Parser.ParseTopLevelFromEnum; yields err and the top-level items.
RECURSIVE TopLevelLoop(_, _, _, _, _, _)
TopLevelLoop(o, toks, pos, topLevelItems, topLevelElemSeen, stopAfterFirstElem) ==
    IF NoNextToken(toks, pos) THEN [err |-> "", items |-> topLevelItems]
    ELSE IF NextTokenThrows(toks, pos) THEN [err |-> toks[pos + 1].Text, items |-> <<>>]
    ELSE
    LET parsed == ParseItem(o, toks, pos + 1)
        item == parsed.item
        next(items, seen) == TopLevelLoop(o, toks, parsed.pos, items, seen, stopAfterFirstElem)
    IN  IF parsed.err # "" THEN [err |-> parsed.err, items |-> <<>>]
        ELSE IF item.Type = "BlankLine"
        THEN next(IF o.PreserveBlankLines THEN Append(topLevelItems, item) ELSE topLevelItems,
                  topLevelElemSeen)
        ELSE IF item.Type \in {"BlockComment", "LineComment"}
        THEN IF o.CommentPolicy = "TreatAsError"
             THEN [err |-> "Comments not allowed with current options", items |-> <<>>]
             ELSE next(IF o.CommentPolicy = "Preserve" THEN Append(topLevelItems, item) ELSE topLevelItems,
                       topLevelElemSeen)
        ELSE IF stopAfterFirstElem /\ topLevelElemSeen
        THEN [err |-> "Unexpected start of second top level element", items |-> <<>>]
        ELSE next(Append(topLevelItems, item), TRUE)

ParseTopLevel(o, inputJson, stopAfterFirstElem) ==
    TopLevelLoop(o, Tokenize(inputJson), 0, <<>>, FALSE, stopAfterFirstElem)

-----------------------------------------------------------------------------
(* The public methods *)

\* Formatter.Reformat(jsonText)
Reformat(o, jsonText) ==
    LET Returned(written) ==
            IF HasThrown(written.text)
            THEN [err |-> "Logic error - trying to inline invalid element", text |-> <<>>, lay |-> <<>>]
            ELSE [err |-> "", text |-> written.text, lay |-> written.lay]
        Formatted(docModel) ==
            IF docModel.err # "" THEN [err |-> docModel.err, text |-> <<>>, lay |-> <<>>]
            ELSE Returned(FormatTopLevel(o, docModel.items))
    IN  Formatted(ParseTopLevel(o, jsonText, TRUE))

\* Formatter.Minify(jsonText)
Minify(o, jsonText) ==
    LET Minified(docModel) ==
            IF docModel.err # "" THEN [err |-> docModel.err, text |-> <<>>]
            ELSE [err |-> "", text |-> MinifyTopLevel(docModel.items, 1, TRUE)]
    IN  Minified(ParseTopLevel(o, jsonText, TRUE))

\* The formatter that expands everything and rewrites nothing.
ExpandOptions ==
    [DefaultOptions EXCEPT !.AlwaysExpandDepth = NumberMaxValue, !.CommentPolicy = "Preserve",
                           !.PreserveBlankLines = TRUE, !.DontJustifyNumbers = TRUE]

-----------------------------------------------------------------------------
(* Input documents.  A document is described as a value and written out as  *)
(* compact JSON text; the formatter only ever sees the text.                *)

Lit(t) == [k |-> "lit", t |-> t, e |-> <<>>]
Arr(e) == [k |-> "arr", t |-> <<>>, e |-> e]
Obj(p) == [k |-> "obj", t |-> <<>>, e |-> p]
Str(chars) == Lit(<<"\"">> \o chars \o <<"\"">>)
Prop(name, v) == [name |-> <<"\"">> \o name \o <<"\"">>, v |-> v]

RECURSIVE DocText(_)
DocText(v) ==
    LET n == Len(v.e)
        sep(i) == IF i < n THEN <<",">> ELSE <<>>
    IN  IF v.k = "lit" THEN v.t
        ELSE IF v.k = "arr"
        THEN <<"[">> \o Flatten([i \in 1..n |-> DocText(v.e[i]) \o sep(i)]) \o <<"]">>
        ELSE <<"{">> \o Flatten([i \in 1..n |-> v.e[i].name \o <<":">> \o DocText(v.e[i].v) \o sep(i)])
             \o <<"}">>

Num1 == Lit(<<"1">>)
Num5 == Lit(<<"5">>)
Num22 == Lit(<<"2", "2">>)
NumDec == Lit(<<"1", ".", "0">>)
NumFrac == Lit(<<"3", ".", "2", "5">>)
NumNeg == Lit(<<"-", "9", "9">>)
NumHuge == Lit(<<"1", "e", "5", "0", "0">>)
NumTiny == Lit(<<"1", "e", "-", "7">>)
Null == Lit(<<"n", "u", "l", "l">>)
True == Lit(<<"t", "r", "u", "e">>)
False == Lit(<<"f", "a", "l", "s", "e">>)
StrX == Str(<<"x">>)
StrLong == Str(<<"a", " ", "b", ",", "c">>)

\* Pairs of rows; a document alternates the two rows of one pair.
RowPairs ==
    << <<Arr(<<Num1>>), Null>>,
       <<Arr(<<Arr(<<Num1>>), Num5>>), Arr(<<Null, Num22>>)>>,
       <<Arr(<<NumHuge, Num1>>), Arr(<<Num22, NumFrac>>)>>,
       <<Arr(<<NumDec, Num22>>), Arr(<<NumFrac, NumNeg>>)>>,
       <<Obj(<<Prop(<<"a">>, Num1), Prop(<<"b", "b">>, StrX)>>), Obj(<<Prop(<<"b", "b">>, StrLong)>>)>>,
       <<Num1, Num22>>,
       <<StrX, Arr(<<>>)>>,
       <<Obj(<<Prop(<<"n">>, Arr(<<Num1, Num5>>))>>), Obj(<<Prop(<<"n">>, Arr(<<Num22>>)), Prop(<<"t">>, True)>>)>>,
       <<True, False>>,
       <<Arr(<<Arr(<<Num1, Num5>>), Arr(<<Num22>>)>>), Arr(<<Arr(<<NumTiny>>), Arr(<<>>)>>)>> >>

\* Most rows a generated container has.
MaxRows == 4

\* Most object levels wrapped around a generated container.
MaxWrap == 1

Rows(pair, n) == [i \in 1..n |-> RowPairs[pair][2 - (i % 2)]]

\* The rows as the elements of an array, or as the properties of an object.
Container(pair, n, asObject) ==
    IF asObject
    THEN Obj([i \in 1..n |-> Prop(<<"p">> \o NatDigits(i), Rows(pair, n)[i])])
    ELSE Arr(Rows(pair, n))

RECURSIVE Wrap(_, _)
Wrap(v, w) ==
    IF w = 0 THEN v ELSE Obj(<<Prop(<<"k">>, Wrap(v, w - 1)), Prop(<<"z">>, Arr(<<Num5, Null>>))>>)

Documents ==
    {Wrap(Container(pair, n, asObject), w) :
        pair \in 1..Len(RowPairs), n \in 0..MaxRows, asObject \in BOOLEAN, w \in 0..MaxWrap}

\* The texts of the documents: what a session is given to format.
Texts == {DocText(d) : d \in Documents}

-----------------------------------------------------------------------------
(* Option sets *)

\* Largest AlwaysExpandDepth tried; the smallest is the default, -1.
MaxAlwaysExpandDepth == 2

BaseOptions ==
    { DefaultOptions,
      [DefaultOptions EXCEPT !.MaxInlineComplexity = 0],
      [DefaultOptions EXCEPT !.MaxInlineComplexity = -1, !.MaxTableRowComplexity = -1],
      [DefaultOptions EXCEPT !.MaxInlineLength = 13, !.MaxCompactArrayComplexity = 2,
                             !.MinCompactArrayRowItems = 2],
      [DefaultOptions EXCEPT !.MaxInlineComplexity = 0, !.MaxTableRowComplexity = 0,
                             !.MaxCompactArrayComplexity = 2, !.MinCompactArrayRowItems = 2,
                             !.MaxTotalLineLength = 16],
      [DefaultOptions EXCEPT !.MaxInlineLength = 23],
      [DefaultOptions EXCEPT !.MaxTotalLineLength = 30, !.DontJustifyNumbers = TRUE],
      [DefaultOptions EXCEPT !.JsonEolStyle = "Crlf", !.CommaPadding = FALSE, !.UseTabToIndent = TRUE,
                             !.MaxInlineComplexity = 1],
      [DefaultOptions EXCEPT !.NestedBracketPadding = FALSE, !.SimpleBracketPadding = TRUE,
                             !.ColonPadding = FALSE, !.CommentPadding = FALSE, !.IndentSpaces = 3,
                             !.PrefixString = <<"\t", "\t">>, !.MaxInlineLength = 30] }

DepthOptions ==
    { [base EXCEPT !.AlwaysExpandDepth = d] :
        base \in { DefaultOptions, [DefaultOptions EXCEPT !.MaxInlineComplexity = 0] },
        d \in 0..MaxAlwaysExpandDepth }

OptionSets == BaseOptions \cup DepthOptions

-----------------------------------------------------------------------------
(* A session: one formatter formats a document, minifies the result and     *)
(* formats that again; a second, all-expanding formatter expands the        *)
(* minified text and the first formats that too.                            *)

Init ==
    /\ opts \in OptionSets
    /\ input \in Texts
    /\ pc = "Text"
    /\ initialOutput = <<>>
    /\ layouts = <<>>
    /\ crunchOutput = <<>>
    /\ backToStartOutput1 = <<>>
    /\ expandOutput = <<>>
    /\ backToStartOutput2 = <<>>
    /\ failed = ""

\* initialOutput = mainFormatter.Reformat(params.Text)
ReformatText ==
    /\ pc = "Text"
    /\ \E r \in {Reformat(opts, input)} :
         /\ initialOutput' = r.text
         /\ layouts' = r.lay
         /\ failed' = r.err
         /\ pc' = IF r.err = "" THEN "initialOutput" ELSE "thrown"
    /\ UNCHANGED <<opts, input, crunchOutput, backToStartOutput1, expandOutput, backToStartOutput2>>

\* crunchOutput = mainFormatter.Minify(initialOutput)
MinifyOutput ==
    /\ pc = "initialOutput"
    /\ \E r \in {Minify(opts, initialOutput)} :
         /\ crunchOutput' = r.text
         /\ failed' = r.err
         /\ pc' = IF r.err = "" THEN "crunchOutput" ELSE "thrown"
    /\ UNCHANGED <<opts, input, initialOutput, layouts, backToStartOutput1, expandOutput, backToStartOutput2>>

\* backToStartOutput1 = mainFormatter.Reformat(crunchOutput)
ReformatCrunch ==
    /\ pc = "crunchOutput"
    /\ \E r \in {Reformat(opts, crunchOutput)} :
         /\ backToStartOutput1' = r.text
         /\ failed' = r.err
         /\ pc' = IF r.err = "" THEN "backToStartOutput1" ELSE "thrown"
    /\ UNCHANGED <<opts, input, initialOutput, layouts, crunchOutput, expandOutput, backToStartOutput2>>

\* expandOutput = expandFormatter.Reformat(crunchOutput)
ExpandCrunch ==
    /\ pc = "backToStartOutput1"
    /\ \E r \in {Reformat(ExpandOptions, crunchOutput)} :
         /\ expandOutput' = r.text
         /\ failed' = r.err
         /\ pc' = IF r.err = "" THEN "expandOutput" ELSE "thrown"
    /\ UNCHANGED <<opts, input, initialOutput, layouts, crunchOutput, backToStartOutput1, backToStartOutput2>>

\* backToStartOutput2 = mainFormatter.Reformat(expandOutput)
ReformatExpanded ==
    /\ pc = "expandOutput"
    /\ \E r \in {Reformat(opts, expandOutput)} :
         /\ backToStartOutput2' = r.text
         /\ failed' = r.err
         /\ pc' = IF r.err = "" THEN "backToStartOutput2" ELSE "thrown"
    /\ UNCHANGED <<opts, input, initialOutput, layouts, crunchOutput, backToStartOutput1, expandOutput>>

Next ==
    \/ ReformatText
    \/ MinifyOutput
    \/ ReformatCrunch
    \/ ExpandCrunch
    \/ ReformatExpanded

Spec == Init /\ [][Next]_vars

-----------------------------------------------------------------------------
(* Reading the output back line by line, as the universal tests do.         *)

\* Position of the first line feed at or after from; Len(text) + 1 without one.
RECURSIVE NextLineFeed(_, _)
NextLineFeed(text, from) ==
    IF from > Len(text) \/ text[from] = "\n" THEN from ELSE NextLineFeed(text, from + 1)

RECURSIVE SplitLines(_, _, _)
SplitLines(o, text, from) ==
    IF from > Len(text) THEN <<>>
    ELSE LET e == NextLineFeed(text, from)
             hasCr == o.JsonEolStyle = "Crlf" /\ e > from /\ text[e - 1] = "\r"
         IN  <<SubSeq(text, from, IF hasCr THEN e - 2 ELSE e - 1)>> \o SplitLines(o, text, e + 1)

\* outputText.split(EolString(opts)): the lines without their terminators.
OutputLines(o, outputText) == SplitLines(o, outputText, 1)

\* The line after its prefix string and indent.
SkipPrefixAndIndent(o, line) == TrimStart(SubSeq(line, Len(o.PrefixString) + 1, Len(line)))

\* The commas of content that lie outside every string and every bracket
\* opened on the line.
RECURSIVE TopLevelCommas(_, _, _, _)
TopLevelCommas(content, i, openCount, inString) ==
    IF i > Len(content) THEN 0
    ELSE LET ch == content[i]
         IN  IF inString
             THEN IF ch = "\\" THEN TopLevelCommas(content, i + 2, openCount, TRUE)
                  ELSE TopLevelCommas(content, i + 1, openCount, ch # "\"")
             ELSE IF ch = "\"" THEN TopLevelCommas(content, i + 1, openCount, TRUE)
             ELSE IF ch \in {"[", "{"} THEN TopLevelCommas(content, i + 1, openCount + 1, FALSE)
             ELSE IF ch \in {"]", "}"} THEN TopLevelCommas(content, i + 1, openCount - 1, FALSE)
             ELSE (IF ch = "," /\ openCount <= 0 THEN 1 ELSE 0)
                  + TopLevelCommas(content, i + 1, openCount, FALSE)

\* The running totals the complexity test keeps over one line: opens against
\* closes, the deepest level at which something other than an empty pair of
\* brackets stands, and whether a second item follows a top-level comma.  The
\* inside of a string is passed over.
NestingStart ==
    [openCount |-> 0, nestLevel |-> 0, topLevelCommaSeen |-> FALSE, multipleTopLevelItems |-> FALSE]

RECURSIVE ScanNesting(_, _, _, _)
ScanNesting(content, i, inString, st) ==
    IF i > Len(content) THEN st
    ELSE LET ch == content[i]
             started == [st EXCEPT !.multipleTopLevelItems = @ \/ (st.topLevelCommaSeen /\ st.openCount = 0)]
         IN  IF inString
             THEN IF ch = "\\" THEN ScanNesting(content, i + 2, TRUE, st)
                  ELSE ScanNesting(content, i + 1, ch # "\"", st)
             ELSE IF ch \in {" ", "\t"} THEN ScanNesting(content, i + 1, FALSE, st)
             ELSE IF ch \in {"[", "{"}
             THEN ScanNesting(content, i + 1, FALSE, [started EXCEPT !.openCount = @ + 1])
             ELSE IF ch \in {"]", "}"}
             THEN ScanNesting(content, i + 1, FALSE,
                              [st EXCEPT !.openCount = @ - 1, !.nestLevel = Max(@, st.openCount - 1)])
             ELSE ScanNesting(content, i + 1, ch = "\"",
                              [started EXCEPT !.topLevelCommaSeen = @ \/ (ch = "," /\ st.openCount = 0),
                                              !.nestLevel = Max(@, st.openCount)])

NestingOf(o, line) == ScanNesting(SkipPrefixAndIndent(o, line), 1, FALSE, NestingStart)

\* Reformat has just returned its text; the later steps leave it as it is.
Reformatted == pc = "initialOutput"

-----------------------------------------------------------------------------
(* The universal properties *)

\* C2: every line of the output whose content, after the prefix string and
\* the indent, is longer than MaxInlineLength, or whose whole length is longer
\* than MaxTotalLineLength, has at most one top-level comma.
C2_LongLinesHoldOneElement ==
    Reformatted =>
        LET lines == OutputLines(opts, initialOutput)
        IN  \A i \in 1..Len(lines) :
                LET content == SkipPrefixAndIndent(opts, lines[i])
                IN  (Len(content) > opts.MaxInlineLength \/ Len(lines[i]) > opts.MaxTotalLineLength)
                        => TopLevelCommas(content, 1, 0, FALSE) <= 1

\* C3: a line that packs several top-level items nests non-empty brackets no
\* deeper than MaxCompactArrayComplexity; any other line no deeper than the
\* larger of MaxInlineComplexity and MaxTableRowComplexity.
C3_ComplexityAsStated ==
    Reformatted =>
        LET lines == OutputLines(opts, initialOutput)
        IN  \A i \in 1..Len(lines) :
                LET n == NestingOf(opts, lines[i])
                IN  IF n.multipleTopLevelItems
                    THEN n.nestLevel <= opts.MaxCompactArrayComplexity
                    ELSE n.nestLevel <= Max(opts.MaxInlineComplexity, opts.MaxTableRowComplexity)

\* C3: a line that packs several top-level items nests non-empty brackets no
\* deeper than MaxCompactArrayComplexity; any other line no deeper than the
\* largest of MaxInlineComplexity, MaxTableRowComplexity, one less than
\* MaxCompactArrayComplexity (a row of a compact array may hold a single
\* item), and zero.
C3_ComplexityRespected ==
    Reformatted =>
        LET lines == OutputLines(opts, initialOutput)
        IN  \A i \in 1..Len(lines) :
                LET n == NestingOf(opts, lines[i])
                IN  IF n.multipleTopLevelItems
                    THEN n.nestLevel <= opts.MaxCompactArrayComplexity
                    ELSE n.nestLevel <= Max(Max(opts.MaxInlineComplexity, opts.MaxTableRowComplexity),
                                            Max(opts.MaxCompactArrayComplexity - 1, 0))

\* A compact array has been written whose rows pack nested arrays, and one
\* of its rows holds a single item nested deeper than both
\* MaxInlineComplexity and MaxTableRowComplexity, neither of them negative.
C3_Witness ==
    /\ Reformatted
    /\ opts.MaxInlineComplexity >= 0
    /\ opts.MaxTableRowComplexity >= 0
    /\ LET lines == OutputLines(opts, initialOutput)
       IN  /\ \E i \in 1..Len(lines) :
                  LET n == NestingOf(opts, lines[i])
                  IN  n.multipleTopLevelItems /\ n.nestLevel >= 1
           /\ \E i \in 1..Len(lines) :
                  LET n == NestingOf(opts, lines[i])
                  IN  /\ ~n.multipleTopLevelItems
                      /\ n.nestLevel > Max(opts.MaxInlineComplexity, opts.MaxTableRowComplexity)

\* C6: no line of the output ends with a space or a tab.
C6_NoTrailingWhitespace ==
    Reformatted =>
        LET lines == OutputLines(opts, initialOutput)
        IN  \A i \in 1..Len(lines) :
                lines[i] = <<>> \/ lines[i][Len(lines[i])] \notin {" ", "\t"}

\* The value an element stands for: a number by its numeric value, whatever
\* its spelling, a container by the names and values of its children in order.
RECURSIVE ValueOf(_)
ValueOf(item) ==
    IF item.Type = "Number" THEN <<"Number", ToNumber(item.Value)>>
    ELSE IF IsContainer(item.Type)
    THEN <<item.Type, [i \in 1..Len(item.Children) |->
                          <<item.Children[i].Name, ValueOf(item.Children[i])>>]>>
    ELSE <<item.Type, item.Value>>

\* A JSON reader: the parser with comments and trailing commas refused and a
\* single top-level value expected.
ReadJson(text) == ParseTopLevel(DefaultOptions, text, TRUE)
IsJson(text) == ReadJson(text).err = "" /\ Len(ReadJson(text).items) = 1

\* C1: the text Reformat returns parses as JSON and has the value of the
\* input, numbers compared by value.
C1_WellFormedSameValue ==
    Reformatted =>
        /\ IsJson(initialOutput)
        /\ ValueOf(ReadJson(initialOutput).items[1]) = ValueOf(ReadJson(input).items[1])

\* C4: minifying the formatted text and formatting it again, and expanding
\* the minified text and formatting that, both give the first formatting.
C4_RepeatedFormattingIsStable ==
    /\ pc = "thrown" => initialOutput = <<>>
    /\ pc \in {"backToStartOutput1", "expandOutput", "backToStartOutput2"}
           => backToStartOutput1 = initialOutput
    /\ pc = "backToStartOutput2" => backToStartOutput2 = initialOutput

\* C7: every string of the input, property names and values alike, stands
\* character for character in the text Reformat returns.
C7_AllStringsExist ==
    Reformatted =>
        LET tokens == Tokenize(input)
        IN  \A i \in 1..Len(tokens) :
                tokens[i].Type = "String" => Includes(initialOutput, tokens[i].Text)

\* The input holds a string with a space and a comma inside, under a property
\* name, and Reformat has laid the document out over several lines.
C7_Witness ==
    /\ Reformatted
    /\ Len(OutputLines(opts, initialOutput)) > 1
    /\ LET tokens == Tokenize(input)
       IN  /\ \E i \in 1..Len(tokens) :
                  tokens[i].Type = "String" /\ Includes(tokens[i].Text, <<" ", "b", ",">>)
           /\ \E i \in 1..(Len(tokens) - 1) :
                  tokens[i].Type = "String" /\ tokens[i + 1].Type = "Colon"

-----------------------------------------------------------------------------
(* Where the columns of a table start *)

\* The offsets from the start of a row segment at which InlineTableRowSegment
\* begins each column of the template: what stands before the opening
\* bracket, the bracket, and the cells written before the column.
ColumnStarts(o, template, item) ==
    LET cells == IF template.Type = "Array" THEN ArrayCells(o, template, item)
                 ELSE ObjectCells(o, template, item)
        before == Len(SegmentHead(o, template, item)) + Len(Start(o, template.Type, template.PadType))
    IN  [i \in 1..Len(cells) |-> before + SumSeq([k \in 1..(i - 1) |-> Len(cells[k])])]

\* The child of item written in column i, or 0 when the row lacks the column.
ColumnChild(template, item, i) ==
    IF template.Type = "Array" THEN (IF i <= Len(item.Children) THEN i ELSE 0)
    ELSE MatchingChild(item, template.Children[i])

\* Every column starts at one offset in all the segments that have it, and so
\* do the columns inside the columns.
RECURSIVE ColumnsAligned(_, _, _)
ColumnsAligned(o, template, segments) ==
    \A i \in 1..Len(template.Children) :
        LET has == {r \in 1..Len(segments) : ColumnChild(template, segments[r], i) # 0}
            cell(segment) == segment.Children[ColumnChild(template, segment, i)]
            inner == SelectSeq(segments, LAMBDA segment :
                                   /\ ColumnChild(template, segment, i) # 0
                                   /\ cell(segment).Type # "Null")
        IN  /\ \A r1, r2 \in has :
                   ColumnStarts(o, template, segments[r1])[i] = ColumnStarts(o, template, segments[r2])[i]
            /\ Len(template.Children[i].Children) > 0 =>
                   ColumnsAligned(o, template.Children[i], [k \in 1..Len(inner) |-> cell(inner[k])])

\* The rows of a table that are written column by column.
ColumnRows(item) ==
    SelectSeq(item.Children, LAMBDA ch : ~IsCommentOrBlankLine(ch.Type) /\ ch.Type # "Null")

\* C5: in every container written as a table, a column present in two or
\* more rows starts at the same offset in each of them.
C5_TableColumnsAlign ==
    Reformatted =>
        \A k \in 1..Len(layouts) :
            layouts[k].layout = "Table" =>
                LET template == TableTemplateFor(opts, layouts[k].item, layouts[k].depth).template
                IN  Len(template.Children) > 0 =>
                        ColumnsAligned(opts, template, ColumnRows(layouts[k].item))

-----------------------------------------------------------------------------
(* The choice of layout *)

\* Whether each of the first three layouts, on its own, writes the container.
InlineSucceeds(e) == FormatContainerInline(opts, e.item, e.depth, e.comma).ok
CompactSucceeds(e) == FormatContainerCompactMultiline(opts, e.item, e.depth, e.comma).ok
TableSucceeds(e) == FormatContainerTable(opts, e.item, e.depth, e.comma).ok

\* The layouts depth permits: Inline and MultilineCompact at depths greater
\* than AlwaysExpandDepth, Table at AlwaysExpandDepth as well.
InlinePermitted(e) == e.depth > opts.AlwaysExpandDepth
TablePermitted(e) == e.depth >= opts.AlwaysExpandDepth

\* C8: each container is written in the first of Inline, MultilineCompact,
\* Table that is permitted and succeeds, and Expanded exactly when none is;
\* MultilineCompact is for arrays only.
C8_FirstLayoutThatSucceedsWins ==
    Reformatted =>
        \A k \in 1..Len(layouts) :
            LET e == layouts[k]
            IN  /\ e.layout = (IF InlinePermitted(e) /\ InlineSucceeds(e) THEN "Inline"
                               ELSE IF InlinePermitted(e) /\ CompactSucceeds(e) THEN "MultilineCompact"
                               ELSE IF TablePermitted(e) /\ TableSucceeds(e) THEN "Table"
                               ELSE "Expanded")
                /\ e.layout = "MultilineCompact" => e.item.Type = "Array"

\* One document has a container written Inline although a table would do, a
\* compact array although a table would do, and an expanded container with
\* children nothing else could write.
C8_Witness ==
    /\ Reformatted
    /\ \E k \in 1..Len(layouts) :
           layouts[k].layout = "MultilineCompact" /\ TableSucceeds(layouts[k])
    /\ \E k \in 1..Len(layouts) :
           layouts[k].layout = "Inline" /\ TableSucceeds(layouts[k])
    /\ \E k \in 1..Len(layouts) :
           /\ layouts[k].layout = "Expanded"
           /\ InlinePermitted(layouts[k])
           /\ Len(layouts[k].item.Children) > 0

-----------------------------------------------------------------------------
(* The inputs of the repository's own tests, and texts like them: rows that *)
(* repeat a property name, comments and blank lines, text that is not one   *)
(* JSON document.  A test formats or minifies one text once.                *)

\* [ {"x":1,"y":2,"z":3},\n{"y":44,"z":55,"z":66} ]
DuplicateKeysRows ==
    << "[", " ", "{", "\"", "x", "\"", ":", "1", ",", "\"", "y", "\"", ":", "2", ",", "\"", "z",
      "\"", ":", "3", "}", ",", "\n", "{", "\"", "y", "\"", ":", "4", "4", ",", "\"", "z", "\"",
      ":", "5", "5", ",", "\"", "z", "\"", ":", "6", "6", "}", " ", "]" >>

\* [{"z":3,"y":1},{"z":1,"y":4},{"z":5,"z":6}]
DuplicateKeysLastRow ==
    << "[", "{", "\"", "z", "\"", ":", "3", ",", "\"", "y", "\"", ":", "1", "}", ",", "{", "\"",
      "z", "\"", ":", "1", ",", "\"", "y", "\"", ":", "4", "}", ",", "{", "\"", "z", "\"", ":", "5",
      ",", "\"", "z", "\"", ":", "6", "}", "]" >>

\* [[{"z":1,"z":2},1],[{"z":3},22]]
DuplicateKeysColumn ==
    << "[", "[", "{", "\"", "z", "\"", ":", "1", ",", "\"", "z", "\"", ":", "2", "}", ",", "1", "]",
      ",", "[", "{", "\"", "z", "\"", ":", "3", "}", ",", "2", "2", "]", "]" >>

\* {"p":{"w":{"z":1,"z":2}},"q":{"w":{"z":3}}}
DuplicateKeysProperty ==
    << "{", "\"", "p", "\"", ":", "{", "\"", "w", "\"", ":", "{", "\"", "z", "\"", ":", "1", ",",
      "\"", "z", "\"", ":", "2", "}", "}", ",", "\"", "q", "\"", ":", "{", "\"", "w", "\"", ":",
      "{", "\"", "z", "\"", ":", "3", "}", "}", "}" >>

\* [{"a":1,"b":2},{"a":33}]
UniqueKeysRows ==
    << "[", "{", "\"", "a", "\"", ":", "1", ",", "\"", "b", "\"", ":", "2", "}", ",", "{", "\"",
      "a", "\"", ":", "3", "3", "}", "]" >>

\* [{"b":1,"a":2},{"a":3,"b":4},{"a":5,"b":6}]
SwappedKeysRows ==
    << "[", "{", "\"", "b", "\"", ":", "1", ",", "\"", "a", "\"", ":", "2", "}", ",", "{", "\"",
      "a", "\"", ":", "3", ",", "\"", "b", "\"", ":", "4", "}", ",", "{", "\"", "a", "\"", ":", "5",
      ",", "\"", "b", "\"", ":", "6", "}", "]" >>
TableFormattingTexts ==
    { DuplicateKeysRows, DuplicateKeysLastRow, DuplicateKeysColumn, DuplicateKeysProperty,
      UniqueKeysRows, SwappedKeysRows }

\* [\n/*a*/\n1, false\n/*b*/\n]
CommentsExpanded ==
    << "[", "\n", "/", "*", "a", "*", "/", "\n", "1", ",", " ", "f", "a", "l", "s", "e", "\n", "/",
      "*", "b", "*", "/", "\n", "]" >>

\* [\n/*a*/\n[1], [false]\n/*b*/\n]
CommentsTable ==
    << "[", "\n", "/", "*", "a", "*", "/", "\n", "[", "1", "]", ",", " ", "[", "f", "a", "l", "s",
      "e", "]", "\n", "/", "*", "b", "*", "/", "\n", "]" >>

\* {"e":[\n/*a*/\n1, false\n/*b*/\n],\n"t":[\n/*a*/\n[1], [false]\n\n/*b*/\n]\n//z\n}
CommentsExpandedAndTable ==
    << "{", "\"", "e", "\"", ":", "[", "\n", "/", "*", "a", "*", "/", "\n", "1", ",", " ", "f", "a",
      "l", "s", "e", "\n", "/", "*", "b", "*", "/", "\n", "]", ",", "\n", "\"", "t", "\"", ":", "[",
      "\n", "/", "*", "a", "*", "/", "\n", "[", "1", "]", ",", " ", "[", "f", "a", "l", "s", "e",
      "]", "\n", "\n", "/", "*", "b", "*", "/", "\n", "]", "\n", "/", "/", "z", "\n", "}" >>

\* {\n    /*1*/ "a": [true, true], /*2*/\n    "b": [false, false], \n    /*3*/ "c": [false, true] /*4*/\n}
PreAndPostComments ==
    << "{", "\n", " ", " ", " ", " ", "/", "*", "1", "*", "/", " ", "\"", "a", "\"", ":", " ", "[",
      "t", "r", "u", "e", ",", " ", "t", "r", "u", "e", "]", ",", " ", "/", "*", "2", "*", "/",
      "\n", " ", " ", " ", " ", "\"", "b", "\"", ":", " ", "[", "f", "a", "l", "s", "e", ",", " ",
      "f", "a", "l", "s", "e", "]", ",", " ", "\n", " ", " ", " ", " ", "/", "*", "3", "*", "/",
      " ", "\"", "c", "\"", ":", " ", "[", "f", "a", "l", "s", "e", ",", " ", "t", "r", "u", "e",
      "]", " ", "/", "*", "4", "*", "/", "\n", "}" >>

\* [1 //a\n,2 /*b*/,3 /*c*/]
PostfixComments ==
    << "[", "1", " ", "/", "/", "a", "\n", ",", "2", " ", "/", "*", "b", "*", "/", ",", "3", " ",
      "/", "*", "c", "*", "/", "]" >>

\* [[1, 2] //a\n,[3,4] /*b*/,\n//c\n[5] //d\n\n]
PostfixCommentsRows ==
    << "[", "[", "1", ",", " ", "2", "]", " ", "/", "/", "a", "\n", ",", "[", "3", ",", "4", "]",
      " ", "/", "*", "b", "*", "/", ",", "\n", "/", "/", "c", "\n", "[", "5", "]", " ", "/", "/",
      "d", "\n", "\n", "]" >>

\*     [ 1,\n    \n    2 ]
BlankLines ==
    << " ", " ", " ", " ", "[", " ", "1", ",", "\n", " ", " ", " ", " ", "\n", " ", " ", " ", " ",
      "2", " ", "]" >>

\* /*a*/ [1,2] /*b*/ //c
TopLevelComments ==
    << "/", "*", "a", "*", "/", " ", "[", "1", ",", "2", "]", " ", "/", "*", "b", "*", "/", " ",
      "/", "/", "c" >>
\* [1 /*b*/,2, {"a":1 /*x*/,"b":[2] /*y*/,"c":3}]
InlinePostfixComments ==
    << "[", "1", " ", "/", "*", "b", "*", "/", ",", "2", ",", " ", "{", "\"", "a", "\"", ":", "1",
      " ", "/", "*", "x", "*", "/", ",", "\"", "b", "\"", ":", "[", "2", "]", " ", "/", "*", "y",
      "*", "/", ",", "\"", "c", "\"", ":", "3", "}", "]" >>
\* [1 //a\n,"s" /*b*/,[2] //c\n,{"k":[3,\n4] //d\n,"l":5},false]
MixedPostfixComments ==
    << "[", "1", " ", "/", "/", "a", "\n", ",", "\"", "s", "\"", " ", "/", "*", "b", "*", "/", ",",
      "[", "2", "]", " ", "/", "/", "c", "\n", ",", "{", "\"", "k", "\"", ":", "[", "3", ",", "\n",
      "4", "]", " ", "/", "/", "d", "\n", ",", "\"", "l", "\"", ":", "5", "}", ",", "f", "a", "l",
      "s", "e", "]" >>
CommentFormattingTexts ==
    { CommentsExpanded, CommentsTable, CommentsExpandedAndTable, PreAndPostComments, PostfixComments,
      PostfixCommentsRows, InlinePostfixComments, MixedPostfixComments, BlankLines, TopLevelComments }

\* [1e500, 4.0]
OverflowDouble ==
    << "[", "1", "e", "5", "0", "0", ",", " ", "4", ".", "0", "]" >>

\* [1e-500, 4.0]
UnderflowDouble ==
    << "[", "1", "e", "-", "5", "0", "0", ",", " ", "4", ".", "0", "]" >>

\* [1, 2.1, 3, 1e+99]
BigNumbers1 ==
    << "[", "1", ",", " ", "2", ".", "1", ",", " ", "3", ",", " ", "1", "e", "+", "9", "9", "]" >>

\* [1, 2.1, 3, 1234567890123456]
BigNumbers2 ==
    << "[", "1", ",", " ", "2", ".", "1", ",", " ", "3", ",", " ", "1", "2", "3", "4", "5", "6",
      "7", "8", "9", "0", "1", "2", "3", "4", "5", "6", "]" >>

\* [1, 2, null, -99]
NullsAndNumbers ==
    << "[", "1", ",", " ", "2", ",", " ", "n", "u", "l", "l", ",", " ", "-", "9", "9", "]" >>

\* [[1e500, 1.0, 0.5],[22, 3.25, 1e-7],[0.0, null, 7]]
NumberColumns ==
    << "[", "[", "1", "e", "5", "0", "0", ",", " ", "1", ".", "0", ",", " ", "0", ".", "5", "]",
      ",", "[", "2", "2", ",", " ", "3", ".", "2", "5", ",", " ", "1", "e", "-", "7", "]", ",", "[",
      "0", ".", "0", ",", " ", "n", "u", "l", "l", ",", " ", "7", "]", "]" >>
NumberFormattingTexts ==
    { OverflowDouble, UnderflowDouble, BigNumbers1, BigNumbers2, NullsAndNumbers, NumberColumns }

\* [1,2] [3,4]
TwoTopLevelElements ==
    << "[", "1", ",", "2", "]", " ", "[", "3", ",", "4", "]" >>

\* [1,2], [3,4]
TwoTopLevelElementsWithComma ==
    << "[", "1", ",", "2", "]", ",", " ", "[", "3", ",", "4", "]" >>

\* [1,2],
TopLevelCommaAfter ==
    << "[", "1", ",", "2", "]", "," >>

\* ,[1,2]
TopLevelCommaBefore ==
    << ",", "[", "1", ",", "2", "]" >>

\* 1\n2
TwoTopLevelNumbers ==
    << "1", "\n", "2" >>

\* \n[1,2]\n\n
TopLevelBlankLines ==
    << "\n", "[", "1", ",", "2", "]", "\n", "\n" >>

\* /*a*/
OnlyAComment ==
    << "/", "*", "a", "*", "/" >>
\* The text with nothing in it.
NoText == <<>>

TopLevelItemsTexts ==
    { TwoTopLevelElements, TwoTopLevelElementsWithComma, TopLevelCommaAfter, TopLevelCommaBefore,
      TwoTopLevelNumbers, TopLevelBlankLines, OnlyAComment, NoText }

\* {"a"}
NameThenClose ==
    << "{", "\"", "a", "\"", "}" >>

\* {"a":}
NameColonThenClose ==
    << "{", "\"", "a", "\"", ":", "}" >>

\* {"b":1,"a"}
LastNameThenClose ==
    << "{", "\"", "b", "\"", ":", "1", ",", "\"", "a", "\"", "}" >>

\* {"a" /*c*/}
NameCommentThenClose ==
    << "{", "\"", "a", "\"", " ", "/", "*", "c", "*", "/", "}" >>

\* {"a","b":1}
NameThenComma ==
    << "{", "\"", "a", "\"", ",", "\"", "b", "\"", ":", "1", "}" >>

\* {"a":,"b":1}
NameColonThenComma ==
    << "{", "\"", "a", "\"", ":", ",", "\"", "b", "\"", ":", "1", "}" >>

\* {"a" 1}
NameThenValue ==
    << "{", "\"", "a", "\"", " ", "1", "}" >>

\* [{"a":{"b"}}]
NestedNameThenClose ==
    << "[", "{", "\"", "a", "\"", ":", "{", "\"", "b", "\"", "}", "}", "]" >>
MalformedObjectTexts ==
    { NameThenClose, NameColonThenClose, LastNameThenClose, NameCommentThenClose,
      NameThenComma, NameColonThenComma, NameThenValue, NestedNameThenClose }

\* [,1]
CommaBeforeFirstElement ==
    << "[", ",", "1", "]" >>

\* [1,,2]
CommaAfterComma ==
    << "[", "1", ",", ",", "2", "]" >>

\* [1 2]
ElementsWithoutComma ==
    << "[", "1", " ", "2", "]" >>

\* [1,2,]
CloseAfterComma ==
    << "[", "1", ",", "2", ",", "]" >>

\* [/*c*/ ,1]
CommentThenCommaFirst ==
    << "[", "/", "*", "c", "*", "/", " ", ",", "1", "]" >>

\* [1, /*c*/ ,2]
CommaCommentComma ==
    << "[", "1", ",", " ", "/", "*", "c", "*", "/", " ", ",", "2", "]" >>

\* [1 /*c*/ 2]
ElementCommentElement ==
    << "[", "1", " ", "/", "*", "c", "*", "/", " ", "2", "]" >>

\* [1 //c\n\n[2]]
ElementLinesElement ==
    << "[", "1", " ", "/", "/", "c", "\n", "\n", "[", "2", "]", "]" >>

\* [[1],\n\n//c\n]
CommaLinesClose ==
    << "[", "[", "1", "]", ",", "\n", "\n", "/", "/", "c", "\n", "]" >>

\* {"a":[1,,2]}
NestedCommaAfterComma ==
    << "{", "\"", "a", "\"", ":", "[", "1", ",", ",", "2", "]", "}" >>
MalformedArrayTexts ==
    { CommaBeforeFirstElement, CommaAfterComma, ElementsWithoutComma, CloseAfterComma,
      CommentThenCommaFirst, CommaCommentComma, ElementCommentElement, ElementLinesElement,
      CommaLinesClose, NestedCommaAfterComma }

TestTexts ==
    TableFormattingTexts \cup CommentFormattingTexts \cup NumberFormattingTexts \cup TopLevelItemsTexts
        \cup MalformedObjectTexts \cup MalformedArrayTexts

\* The options the tests set on a new Formatter.
TestBaseOptions ==
    { DefaultOptions,
      [DefaultOptions EXCEPT !.MaxInlineComplexity = 1],
      [DefaultOptions EXCEPT !.MaxInlineComplexity = 0],
      [DefaultOptions EXCEPT !.MaxInlineComplexity = -1],
      [DefaultOptions EXCEPT !.MaxInlineComplexity = 0, !.MaxCompactArrayComplexity = 0,
                             !.MaxTableRowComplexity = 0],
      [DefaultOptions EXCEPT !.PreserveBlankLines = TRUE],
      [DefaultOptions EXCEPT !.PreserveBlankLines = TRUE, !.MaxInlineComplexity = 0] }

TestOptions ==
    { [base EXCEPT !.CommentPolicy = policy, !.AllowTrailingCommas = trailing] :
        base \in TestBaseOptions, policy \in {"TreatAsError", "Remove", "Preserve"},
        trailing \in BOOLEAN }

InitTests ==
    /\ opts \in TestOptions
    /\ input \in TestTexts
    /\ pc = "Text"
    /\ initialOutput = <<>>
    /\ layouts = <<>>
    /\ crunchOutput = <<>>
    /\ backToStartOutput1 = <<>>
    /\ expandOutput = <<>>
    /\ backToStartOutput2 = <<>>
    /\ failed = ""

\* formatter.Minify(input)
MinifyText ==
    /\ pc = "Text"
    /\ \E r \in {Minify(opts, input)} :
         /\ crunchOutput' = r.text
         /\ failed' = r.err
         /\ pc' = IF r.err = "" THEN "crunchOutput" ELSE "thrown"
    /\ UNCHANGED <<opts, input, initialOutput, layouts, backToStartOutput1, expandOutput, backToStartOutput2>>

NextTests ==
    \/ ReformatText
    \/ MinifyText

SpecTests == InitTests /\ [][NextTests]_vars

-----------------------------------------------------------------------------
(* Rows that repeat a property name *)

\* The object has two properties of one name.
RepeatsAName(item) ==
    /\ item.Type = "Object"
    /\ \E i, j \in 1..Len(item.Children) :
           /\ i # j
           /\ ~IsCommentOrBlankLine(item.Children[i].Type)
           /\ ~IsCommentOrBlankLine(item.Children[j].Type)
           /\ item.Children[i].Name = item.Children[j].Name

\* An element and everything inside it.
RECURSIVE ItemsIn(_)
ItemsIn(item) ==
    {item} \cup UNION {ItemsIn(item.Children[i]) : i \in 1..Len(item.Children)}

\* No template that has columns was measured over an object repeating a name.
RECURSIVE NoColumnsOverRepeatedNames(_, _)
NoColumnsOverRepeatedNames(template, segments) ==
    Len(template.Children) > 0 =>
        /\ \A r \in 1..Len(segments) : ~RepeatsAName(segments[r])
        /\ \A i \in 1..Len(template.Children) :
               LET inner == SelectSeq(segments, LAMBDA segment : ColumnChild(template, segment, i) # 0)
               IN  NoColumnsOverRepeatedNames(
                       template.Children[i],
                       [k \in 1..Len(inner) |-> inner[k].Children[ColumnChild(template, inner[k], i)]])

\* C11: no container is written as a table whose rows are objects repeating
\* a property name, no column of a table is split into columns over such
\* objects, and such an object is written with all its properties, the
\* repeated ones included, in their order.
C11_RepeatedNamesAreNotTabulated ==
    Reformatted =>
        /\ \A k \in 1..Len(layouts) :
               layouts[k].layout = "Table" =>
                   /\ \A r \in 1..Len(ColumnRows(layouts[k].item)) :
                          ~RepeatsAName(ColumnRows(layouts[k].item)[r])
                   /\ NoColumnsOverRepeatedNames(
                          TableTemplateFor(opts, layouts[k].item, layouts[k].depth).template,
                          ColumnRows(layouts[k].item))
        /\ IsJson(input) =>
               \A obj \in ItemsIn(ReadJson(input).items[1]) :
                   RepeatsAName(obj) =>
                       /\ IsJson(initialOutput)
                       /\ \E written \in ItemsIn(ReadJson(initialOutput).items[1]) :
                              ValueOf(written) = ValueOf(obj)

\* A container was written as a table, and one cell of a row is an object
\* that repeats a name.
C11_Witness ==
    /\ Reformatted
    /\ \E k \in 1..Len(layouts) :
           /\ layouts[k].layout = "Table"
           /\ \E obj \in ItemsIn(layouts[k].item) : RepeatsAName(obj)

-----------------------------------------------------------------------------
(* The order of the columns of a table of objects *)

\* The sum of the child indexes at which the rows hold a property of the
\* name, and the number of rows that hold one.
OrderSum(segments, name) ==
    SumSeq([r \in 1..Len(segments) |->
               SumSeq([i \in 1..Len(segments[r].Children) |->
                          IF segments[r].Children[i].Name = name THEN i - 1 ELSE 0])])

OrderCount(segments, name) ==
    SumSeq([r \in 1..Len(segments) |->
               IF \E i \in 1..Len(segments[r].Children) : segments[r].Children[i].Name = name
               THEN 1 ELSE 0])

\* The columns of a template over objects stand in ascending order of the
\* mean child index of their names: sum1/count1 <= sum2/count2.
ColumnsInMeanOrder(template, segments) ==
    template.Type = "Object" =>
        \A i \in 1..(Len(template.Children) - 1) :
            LET name1 == template.Children[i].LocationInParent
                name2 == template.Children[i + 1].LocationInParent
            IN  OrderSum(segments, name1) * OrderCount(segments, name2)
                    <= OrderSum(segments, name2) * OrderCount(segments, name1)

\* C12: in a container written as a table of objects, the columns stand in
\* ascending order of the mean child index their property names have in the
\* rows.
C12_ColumnsInMeanIndexOrder ==
    Reformatted =>
        \A k \in 1..Len(layouts) :
            layouts[k].layout = "Table" =>
                ColumnsInMeanOrder(TableTemplateFor(opts, layouts[k].item, layouts[k].depth).template,
                                   ColumnRows(layouts[k].item))

-----------------------------------------------------------------------------
(* Commas in the formatted text, read token by token *)

\* A token that is a comment or a blank line.
IsQuiet(token) == token.Type \in {"BlankLine", "BlockComment", "LineComment"}

\* The nearest token before or after position i that is neither a comment nor
\* a blank line; 0 when there is none.
PreviousData(toks, i) ==
    LET before == {j \in 1..(i - 1) : ~IsQuiet(toks[j])}
    IN  IF before = {} THEN 0 ELSE CHOOSE j \in before : \A x \in before : x <= j

NextData(toks, i) ==
    LET after == {j \in (i + 1)..Len(toks) : ~IsQuiet(toks[j])}
    IN  IF after = {} THEN 0 ELSE CHOOSE j \in after : \A x \in after : j <= x

\* Tokens that end a value, and tokens that begin one.
EndsValue(token) == token.Type \in {"False", "True", "Null", "Number", "String", "EndArray", "EndObject"}
BeginsValue(token) == token.Type \in {"False", "True", "Null", "Number", "String", "BeginArray", "BeginObject"}

\* Every comma stands after the end of a value and before the beginning of
\* the next one, and every two values in a row are parted by a comma.
CommasPartDataChildren(toks) ==
    \A i \in 1..Len(toks) :
        /\ toks[i].Type = "Comma" =>
               /\ PreviousData(toks, i) # 0
               /\ EndsValue(toks[PreviousData(toks, i)])
               /\ toks[PreviousData(toks, i)].Type = "String" =>
                      (PreviousData(toks, PreviousData(toks, i)) # 0
                       => toks[PreviousData(toks, PreviousData(toks, i))].Type # "BeginObject")
               /\ NextData(toks, i) # 0
               /\ BeginsValue(toks[NextData(toks, i)])
        /\ (EndsValue(toks[i]) /\ NextData(toks, i) # 0) =>
               toks[NextData(toks, i)].Type \in {"Comma", "Colon", "EndArray", "EndObject"}

\* A comment straight before a comma closes the line of the element the
\* comma follows: no comma follows a comment that stands alone, or a blank
\* line.
NoCommaOfItsOwn(toks) ==
    \A i \in 2..Len(toks) :
        (toks[i].Type = "Comma" /\ IsQuiet(toks[i - 1])) =>
            /\ toks[i - 1].Type = "BlockComment"
            /\ i > 2
            /\ EndsValue(toks[i - 2])
            /\ toks[i - 2].Row = toks[i - 1].Row

\* C13: in the text Reformat returns, a comma follows a data child exactly
\* when another data child of the same container comes after it; comments
\* and blank lines standing alone get no comma, and comments after the last
\* data child put no comma behind it.
C13_CommaExactlyBetweenDataChildren ==
    (Reformatted /\ \E k \in 1..Len(layouts) : layouts[k].layout \in {"Expanded", "Table"}) =>
        /\ CommasPartDataChildren(Tokenize(initialOutput))
        /\ NoCommaOfItsOwn(Tokenize(initialOutput))

\* One container with two data children or more and a comment after the last
\* of them was written expanded, and another as a table.
C13_Witness ==
    /\ Reformatted
    /\ \A layout \in {"Expanded", "Table"} :
           \E k \in 1..Len(layouts) :
               /\ layouts[k].layout = layout
               /\ IndexOfLastElement(layouts[k].item.Children) >= 2
               /\ IndexOfLastElement(layouts[k].item.Children) < Len(layouts[k].item.Children)

-----------------------------------------------------------------------------
(* Postfix comments and the comma of their element *)

\* The positions at which piece stands in text.
OccurrencesOf(text, piece) ==
    {i \in 1..(Len(text) - Len(piece) + 1) : SubSeq(text, i, i + Len(piece) - 1) = piece}

\* The last character before position i, and the first from position i on,
\* that is not a space; <<>> when there is none.
LastBefore(text, i) ==
    LET at == {j \in 1..(i - 1) : text[j] # " "}
    IN  IF at = {} THEN <<>> ELSE <<text[CHOOSE j \in at : \A x \in at : x <= j]>>

FirstFrom(text, i) ==
    LET at == {j \in i..Len(text) : text[j] # " "}
    IN  IF at = {} THEN <<>> ELSE <<text[CHOOSE j \in at : \A x \in at : j <= x]>>

\* The data children of the containers of a document that are followed by
\* another data child and carry a postfix comment.
RECURSIVE CommentedBeforeComma(_)
CommentedBeforeComma(item) ==
    {item.Children[i] : i \in {n \in 1..(IndexOfLastElement(item.Children) - 1) :
                                  /\ ~IsCommentOrBlankLine(item.Children[n].Type)
                                  /\ item.Children[n].PostfixComment # <<>>}}
    \cup UNION {CommentedBeforeComma(item.Children[i]) : i \in 1..Len(item.Children)}

\* In text the comment stands where the comma of its element demands: a line
\* comment straight after the comma, a block comment straight before it.
CommaPlacedFor(text, element) ==
    /\ OccurrencesOf(text, element.PostfixComment) # {}
    /\ \A p \in OccurrencesOf(text, element.PostfixComment) :
           IF element.IsPostCommentLineStyle
           THEN LastBefore(text, p) = <<",">>
           ELSE /\ FirstFrom(text, p + Len(element.PostfixComment)) = <<",">>
                /\ LastBefore(text, p) # <<",">>

-----------------------------------------------------------------------------
(* Columns of numbers that cannot be rewritten *)

\* The number cannot be rewritten safely: as a double it is infinite, its
\* canonical form needs an exponent or more than maxChars characters, or it
\* is not zero yet becomes zero as a double.
CannotBeRewritten(text) ==
    LET parsedVal == ToNumber(text)
        normalizedStr == NumberToString(parsedVal)
        mantissa == IF IndexOfAny(text, {"e", "E"}) >= 0
                    THEN SubSeq(text, 1, IndexOfAny(text, {"e", "E"})) ELSE text
    IN  \/ parsedVal.kind = "inf"
        \/ IndexOfAny(normalizedStr, {"e"}) >= 0
        \/ Len(normalizedStr) > maxChars
        \/ parsedVal.kind = "zero" /\ \E i \in 1..Len(mantissa) : mantissa[i] \in Digits \ {"0"}

\* The texts of the number tokens of a text.
NumberTexts(text) ==
    {Tokenize(text)[i].Text : i \in {n \in 1..Len(Tokenize(text)) : Tokenize(text)[n].Type = "Number"}}

\* In every column of the template that holds a number which cannot be
\* rewritten, each number stands in written as its source text.
RECURSIVE ColumnsKeptAsWritten(_, _, _)
ColumnsKeptAsWritten(template, segments, written) ==
    IF Len(template.Children) = 0
    THEN (\E r \in 1..Len(segments) :
              segments[r].Type = "Number" /\ CannotBeRewritten(segments[r].Value))
         => \A r \in 1..Len(segments) :
                segments[r].Type = "Number" => segments[r].Value \in written
    ELSE \A i \in 1..Len(template.Children) :
             LET inner == SelectSeq(segments, LAMBDA segment : ColumnChild(template, segment, i) # 0)
             IN  ColumnsKeptAsWritten(
                     template.Children[i],
                     [k \in 1..Len(inner) |-> inner[k].Children[ColumnChild(template, inner[k], i)]],
                     written)

\* C15: when numbers are normalized and a column of a table or of a compact
\* array holds a number that cannot be rewritten safely, every number of
\* the column is written with its source text.
C15_UnsafeColumnKeepsSourceText ==
    (Reformatted /\ ~opts.DontJustifyNumbers) =>
        \A k \in 1..Len(layouts) :
            /\ layouts[k].layout = "Table" =>
                   ColumnsKeptAsWritten(
                       TableTemplateFor(opts, layouts[k].item, layouts[k].depth).template,
                       ColumnRows(layouts[k].item), NumberTexts(initialOutput))
            /\ layouts[k].layout = "MultilineCompact" =>
                   ColumnsKeptAsWritten(MeasureTableRoot(opts, layouts[k].item),
                                        ColumnRows(layouts[k].item), NumberTexts(initialOutput))

-----------------------------------------------------------------------------
(* Lists of numbers under NumberListAlignment: the TableTemplate that takes *)
(* a NumberListAlignment measures a column of numbers and nulls and writes  *)
(* each of them through FormatNumber.  The formatter that drives this       *)
(* template is not among the sources; here the column is the children of    *)
(* one array, measured one after the other and then written one by one.     *)

\* new TableTemplate(pads, numberListAlignment)
NewNumberListTemplate(numberListAlignment) ==
    [ numberListAlignment |-> numberListAlignment,
      AllowNumberNormalization |-> numberListAlignment = "Normalize",
      IsNumberList |-> TRUE,
      ContainsNull |-> FALSE,
      SimpleValueLength |-> 0,
      CompositeValueLength |-> 0,
      maxDigBeforeDecRaw |-> 0,
      maxDigAfterDecRaw |-> 0,
      maxDigBeforeDecNorm |-> 0,
      maxDigAfterDecNorm |-> 0 ]

\* LiteralNullLen: the length of the literal null
LiteralNullLen == Len(<<"n", "u", "l", "l">>)

\* _trulyZeroValString: ^-?[0.]+([eE].*)?$
TrulyZeroValString(text) ==
    LET body == IF text # <<>> /\ Head(text) = "-" THEN Tail(text) ELSE text
        ePos == IndexOfAny(body, {"e", "E"})
        zeros == IF ePos >= 0 THEN SubSeq(body, 1, ePos) ELSE body
    IN  zeros # <<>> /\ \A i \in 1..Len(zeros) : zeros[i] \in {"0", "."}

\* MeasureRowSegment for a row segment that is a number or null.
MeasureNumberSegment(t, rowSegment) ==
    LET nulled ==
            IF rowSegment.Type = "Null"
            THEN [t EXCEPT !.maxDigBeforeDecNorm = Max(t.maxDigBeforeDecNorm, LiteralNullLen),
                           !.maxDigBeforeDecRaw = Max(t.maxDigBeforeDecRaw, LiteralNullLen),
                           !.ContainsNull = TRUE]
            ELSE t
        sized == [nulled EXCEPT !.SimpleValueLength = Max(nulled.SimpleValueLength, rowSegment.ValueLength)]
        Counted(parsedVal, normalizedStr) ==
            LET indexOfDotNorm == IndexOfAny(normalizedStr, {"."})
                indexOfDotRaw == IndexOfAny(rowSegment.Value, {".", "e", "E"})
            IN  [sized EXCEPT
                    !.AllowNumberNormalization =
                        /\ sized.AllowNumberNormalization
                        /\ parsedVal.kind # "inf"
                        /\ Len(normalizedStr) <= maxChars
                        /\ IndexOfAny(normalizedStr, {"e"}) < 0
                        /\ (parsedVal.kind # "zero" \/ TrulyZeroValString(rowSegment.Value)),
                    !.maxDigBeforeDecNorm =
                        Max(sized.maxDigBeforeDecNorm,
                            IF indexOfDotNorm >= 0 THEN indexOfDotNorm ELSE Len(normalizedStr)),
                    !.maxDigAfterDecNorm =
                        Max(sized.maxDigAfterDecNorm,
                            IF indexOfDotNorm >= 0 THEN Len(normalizedStr) - indexOfDotNorm - 1 ELSE 0),
                    !.maxDigBeforeDecRaw =
                        Max(sized.maxDigBeforeDecRaw,
                            IF indexOfDotRaw >= 0 THEN indexOfDotRaw ELSE rowSegment.ValueLength),
                    !.maxDigAfterDecRaw =
                        Max(sized.maxDigAfterDecRaw,
                            IF indexOfDotRaw >= 0 THEN rowSegment.ValueLength - indexOfDotRaw - 1 ELSE 0)]
    IN  IF rowSegment.Type = "Number" /\ sized.IsNumberList
        THEN Counted(ToNumber(rowSegment.Value), NumberToString(ToNumber(rowSegment.Value)))
        ELSE sized

GetNumberFieldWidth(t) ==
    IF t.numberListAlignment = "Normalize" /\ t.AllowNumberNormalization
    THEN t.maxDigBeforeDecNorm + (IF t.maxDigAfterDecNorm > 0 THEN 1 ELSE 0) + t.maxDigAfterDecNorm
    ELSE IF t.numberListAlignment = "Decimal"
    THEN t.maxDigBeforeDecRaw + (IF t.maxDigAfterDecRaw > 0 THEN 1 ELSE 0) + t.maxDigAfterDecRaw
    ELSE t.SimpleValueLength

\* The template of a column: every row segment measured, then the width of
\* the number field computed as PruneAndRecompute does for a number list.
RECURSIVE MeasureNumberSegments(_, _, _)
MeasureNumberSegments(t, column, i) ==
    IF i > Len(column) THEN [t EXCEPT !.CompositeValueLength = GetNumberFieldWidth(t)]
    ELSE MeasureNumberSegments(MeasureNumberSegment(t, column[i]), column, i + 1)

\* FormatNumber with every number rewritten to the column's precision,
\* whatever the alignment.
FormatNumberNormalized(t, item, commaBeforePadType) ==
    IF item.Type = "Null" THEN item.Value \o commaBeforePadType
    ELSE NumberToFixed(ToNumber(item.Value), t.maxDigAfterDecNorm + 1) \o commaBeforePadType

\* FormatNumber(buffer, item, commaBeforePadType): what it adds to the buffer.
FormatNumberAligned(t, item, commaBeforePadType) ==
    LET formatType == IF t.numberListAlignment = "Normalize" /\ ~t.AllowNumberNormalization
                      THEN "Left" ELSE t.numberListAlignment
        Padded(maxDigBefore, valueStr) ==
            LET indexOfDot == IndexOfAny(valueStr, {".", "e", "E"})
                leftPad == IF indexOfDot > 0 THEN maxDigBefore - indexOfDot
                           ELSE maxDigBefore - Len(valueStr)
                rightPad == IF indexOfDot > 0 THEN t.CompositeValueLength - leftPad - Len(valueStr)
                            ELSE t.CompositeValueLength - maxDigBefore
            IN  Spaces(leftPad) \o valueStr \o commaBeforePadType \o Spaces(rightPad)
    IN  IF formatType = "Left"
        THEN item.Value \o commaBeforePadType \o Spaces(t.SimpleValueLength - item.ValueLength)
        ELSE IF formatType = "Right"
        THEN Spaces(t.SimpleValueLength - item.ValueLength) \o item.Value \o commaBeforePadType
        ELSE IF formatType = "Normalize"
        THEN IF item.Type = "Null"
             THEN Spaces(t.maxDigBeforeDecNorm - item.ValueLength) \o item.Value \o commaBeforePadType
                  \o Spaces(t.CompositeValueLength - t.maxDigBeforeDecNorm)
             ELSE Padded(t.maxDigBeforeDecNorm, NumberToFixed(ToNumber(item.Value), t.maxDigAfterDecNorm))
        ELSE Padded(t.maxDigBeforeDecRaw, item.Value)

\* [ 123.456, 234567.8, 3, null, 5.6789 ]
AlignmentColumn1 ==
    << "[", " ", "1", "2", "3", ".", "4", "5", "6", ",", " ", "2", "3", "4", "5", "6", "7", ".",
      "8", ",", " ", "3", ",", " ", "n", "u", "l", "l", ",", " ", "5", ".", "6", "7", "8", "9", " ",
      "]" >>

\* [ 0, 0, 0.00000, 2e-1, 3.5e-1 ]
AlignmentColumn2 ==
    << "[", " ", "0", ",", " ", "0", ",", " ", "0", ".", "0", "0", "0", "0", "0", ",", " ", "2",
      "e", "-", "1", ",", " ", "3", ".", "5", "e", "-", "1", " ", "]" >>

\* [ 0, 0, 7e2, 80e1, 0 ]
AlignmentColumn3 ==
    << "[", " ", "0", ",", " ", "0", ",", " ", "7", "e", "2", ",", " ", "8", "0", "e", "1", ",",
      " ", "0", " ", "]" >>

\* [-1.50, 22, -0.0, 1E+3, null]
SignedColumn ==
    << "[", "-", "1", ".", "5", "0", ",", " ", "2", "2", ",", " ", "-", "0", ".", "0", ",", " ",
      "1", "E", "+", "3", ",", " ", "n", "u", "l", "l", "]" >>

\* [1, 2]
ShortColumn ==
    << "[", "1", ",", " ", "2", "]" >>

\* [1234567890123456, 0.1, -3]
WideColumn ==
    << "[", "1", "2", "3", "4", "5", "6", "7", "8", "9", "0", "1", "2", "3", "4", "5", "6", ",",
      " ", "0", ".", "1", ",", " ", "-", "3", "]" >>
NumberListTexts ==
    { AlignmentColumn1, AlignmentColumn2, AlignmentColumn3, SignedColumn, ShortColumn, WideColumn,
      OverflowDouble, UnderflowDouble, BigNumbers1, NullsAndNumbers }

\* The alignments, and the comma a caller asks to have written before the
\* padding: none, or the comma with or without its space.
NumberListOptions ==
    { [NumberListAlignment |-> alignment, commaBeforePadType |-> comma] :
        alignment \in {"Left", "Right", "Decimal", "Normalize"},
        comma \in {<<>>, <<",">>, <<",", " ">>} }

\* The children of the array a text holds, with their lengths computed.
NumberListOf(text) ==
    ComputeItemLengths(DefaultOptions, ParseTopLevel(DefaultOptions, text, TRUE).items[1]).Children

InitNumberList ==
    /\ opts \in NumberListOptions
    /\ input \in NumberListTexts
    /\ pc = "NumberList"
    /\ initialOutput = <<>>
    /\ layouts = <<>>
    /\ crunchOutput = <<>>
    /\ backToStartOutput1 = <<>>
    /\ expandOutput = <<>>
    /\ backToStartOutput2 = <<>>
    /\ failed = ""

\* The column is measured and each of its numbers is written: layouts takes
\* the template, initialOutput what FormatNumber added for each number.
FormatNumberList ==
    /\ pc = "NumberList"
    /\ \E column \in {NumberListOf(input)} :
         \E template \in {MeasureNumberSegments(NewNumberListTemplate(opts.NumberListAlignment), column, 1)} :
            /\ layouts' = <<template>>
            /\ initialOutput' = [i \in 1..Len(column) |->
                                    FormatNumberAligned(template, column[i], opts.commaBeforePadType)]
    /\ pc' = "NumberListFormatted"
    /\ UNCHANGED <<opts, input, crunchOutput, backToStartOutput1, expandOutput, backToStartOutput2, failed>>

NextNumberList == FormatNumberList

SpecNumberList == InitNumberList /\ [][NextNumberList]_vars

-----------------------------------------------------------------------------
(* What stands at the top level of a text *)

\* How many brackets are open before token i.
DepthBefore(toks, i) ==
    Cardinality({j \in 1..(i - 1) : toks[j].Type \in {"BeginArray", "BeginObject"}})
    - Cardinality({j \in 1..(i - 1) : toks[j].Type \in {"EndArray", "EndObject"}})

\* The tokens that begin an element at the top level, and the commas there.
ElementsAtTopLevel(toks) ==
    {i \in 1..Len(toks) : DepthBefore(toks, i) = 0 /\ BeginsValue(toks[i])}

CommasAtTopLevel(toks) ==
    {i \in 1..Len(toks) : DepthBefore(toks, i) = 0 /\ toks[i].Type = "Comma"}

\* Reformat or Minify has returned a text for the input.
Accepted == pc \in {"initialOutput", "crunchOutput"}

\* C17: Reformat and Minify return a text only for an input with exactly
\* one element at the top level and no comma there; when they raise an
\* error they return nothing.
C17_ExactlyOneTopLevelElement ==
    /\ Accepted =>
           /\ Cardinality(ElementsAtTopLevel(Tokenize(input))) = 1
           /\ CommasAtTopLevel(Tokenize(input)) = {}
    /\ pc = "thrown" => (initialOutput = <<>> /\ crunchOutput = <<>>)

-----------------------------------------------------------------------------
(* Property names and their values *)

\* The bracket that token i stands in; 0 at the top level.
Enclosing(toks, i) ==
    LET opens == {j \in 1..(i - 1) : /\ toks[j].Type \in {"BeginArray", "BeginObject"}
                                     /\ DepthBefore(toks, j) = DepthBefore(toks, i) - 1}
    IN  IF opens = {} THEN 0 ELSE CHOOSE j \in opens : \A x \in opens : x <= j

\* Token i is a string where an object expects a property name.
IsPropertyName(toks, i) ==
    /\ toks[i].Type = "String"
    /\ LET p == PreviousData(toks, i)
       IN  /\ p # 0
           /\ \/ toks[p].Type = "BeginObject"
              \/ /\ toks[p].Type = "Comma"
                 /\ Enclosing(toks, i) # 0
                 /\ toks[Enclosing(toks, i)].Type = "BeginObject"

\* The name at i is not followed by a colon and then by a value.
NameLacksValue(toks, i) ==
    /\ IsPropertyName(toks, i)
    /\ LET c == NextData(toks, i)
       IN  \/ c = 0
           \/ toks[c].Type # "Colon"
           \/ LET v == NextData(toks, c) IN v = 0 \/ ~BeginsValue(toks[v])

\* C18: an input in which some property name is not followed by a colon
\* and then a value is never accepted: parsing it raises an error.
C18_NameWithoutValueIsAnError ==
    (\E i \in 1..Len(Tokenize(input)) : NameLacksValue(Tokenize(input), i)) => ~Accepted

-----------------------------------------------------------------------------
(* Commas of an array *)

\* Token i stands directly in an array and breaks the comma rules there: a
\* comma after the opening bracket or after another comma, an element after
\* the end of another element, or the closing bracket after a comma when
\* trailing commas are not allowed.  Comments and blank lines are skipped.
ArrayCommaFault(toks, i, allowTrailingCommas) ==
    LET p == PreviousData(toks, i)
        e == Enclosing(toks, i)
    IN  /\ e # 0
        /\ toks[e].Type = "BeginArray"
        /\ p # 0
        /\ \/ toks[i].Type = "Comma" /\ (p = e \/ toks[p].Type = "Comma")
           \/ BeginsValue(toks[i]) /\ p # e /\ EndsValue(toks[p])
           \/ toks[i].Type = "EndArray" /\ toks[p].Type = "Comma" /\ ~allowTrailingCommas

HasArrayCommaFault(toks, allowTrailingCommas) ==
    \E i \in 1..Len(toks) : ArrayCommaFault(toks, i, allowTrailingCommas)

\* C19: an input with an array that has a comma before its first element
\* or after another comma, two elements with no comma between them, or a
\* closing bracket after a comma while AllowTrailingCommas is false, is never
\* accepted, whatever comments and blank lines stand between the tokens.
C19_ArrayCommaFaultIsAnError ==
    HasArrayCommaFault(Tokenize(input), opts.AllowTrailingCommas) => ~Accepted

\* An array whose comma fault lies across a kept comment was refused for it.
C19_Witness ==
    /\ pc = "thrown"
    /\ opts.CommentPolicy = "Preserve"
    /\ failed \in {"Unexpected comma in array", "Comma missing while processing array",
                   "Array may not end with a comma with current options"}
    /\ \E i \in 1..Len(Tokenize(input)) :
           /\ ArrayCommaFault(Tokenize(input), i, opts.AllowTrailingCommas)
           /\ PreviousData(Tokenize(input), i) < i - 1

-----------------------------------------------------------------------------
(* Serialize: from JavaScript data to text *)

\* JavaScript data is a heap of values: an array or an object holds
\* references into the heap, so that a value can contain itself.  text is
\* what JSON.stringify makes of a scalar; names are an object's keys.
ArrayOf(refs) == [kind |-> "array", refs |-> refs, names |-> <<>>, text |-> <<>>]
ObjectOf(names, refs) == [kind |-> "object", refs |-> refs, names |-> names, text |-> <<>>]
ScalarOf(kind, text) == [kind |-> kind, refs |-> <<>>, names |-> <<>>, text |-> text]
NotData(kind) == [kind |-> kind, refs |-> <<>>, names |-> <<>>, text |-> <<>>]

NullData == ScalarOf("null", <<"n", "u", "l", "l">>)
One == ScalarOf("number", <<"1">>)
Eighteen == ScalarOf("number", <<"1", "8">>)
Foo == ScalarOf("string", <<"\"", "f", "o", "o", "\"">>)
TrueData == ScalarOf("boolean", <<"t", "r", "u", "e">>)
FalseData == ScalarOf("boolean", <<"f", "a", "l", "s", "e">>)
\* A value with a toJSON method, a Date, whose JSON form is a string.
ADate == ScalarOf("toJSON", <<"\"", "2", "0", "2", "0", "-", "0", "1", "-", "0", "1", "\"">>)

\* The values handed to Serialize: a heap and the element's place in it.
\* foo = []; bar = [foo]; foo.push(bar)
CircularReference == [heap |-> <<ArrayOf(<<2>>), ArrayOf(<<1>>)>>, root |-> 1]
\* o = {a: 1}; o.b = o
SelfReference == [heap |-> <<ObjectOf(<<"a", "b">>, <<2, 1>>), One>>, root |-> 1]
\* inner = {}; outer = [18, {x: [true, inner]}]; inner.up = outer
DeepCircularReference ==
    [heap |-> <<ArrayOf(<<2, 3>>), Eighteen, ObjectOf(<<"x">>, <<4>>), ArrayOf(<<5, 6>>), TrueData,
                ObjectOf(<<"u">>, <<1>>)>>,
     root |-> 1]
\* [[1, null], {x: 18, y: [false]}]
MixedRows ==
    [heap |-> <<ArrayOf(<<2, 3>>), ArrayOf(<<4, 5>>), ObjectOf(<<"x", "y">>, <<6, 7>>), One, NullData,
                Eighteen, ArrayOf(<<8>>), FalseData>>,
     root |-> 1]
\* [[[[1]]]]
Nested4 ==
    [heap |-> <<ArrayOf(<<2>>), ArrayOf(<<3>>), ArrayOf(<<4>>), ArrayOf(<<5>>), One>>, root |-> 1]
\* { a: "foo", b: false, c: undefined }
WithUndefinedProperty ==
    [heap |-> <<ObjectOf(<<"a", "b", "c">>, <<2, 3, 4>>), Foo, FalseData, NotData("undefined")>>, root |-> 1]
\* [() => 8, new Date(), Symbol.for("xyz")]
WithFunction ==
    [heap |-> <<ArrayOf(<<2, 3, 4>>), NotData("function"), ADate, NotData("symbol")>>, root |-> 1]
\* shared = [1]; [shared, shared]
SharedReference == [heap |-> <<ArrayOf(<<2, 2>>), ArrayOf(<<3>>), One>>, root |-> 1]

SimpleTestCases ==
    { [heap |-> <<v>>, root |-> 1] :
        v \in {NullData, NotData("undefined"), Foo, Eighteen, ArrayOf(<<>>), ObjectOf(<<>>, <<>>),
               TrueData, ADate, NotData("symbol"), NotData("function")} }

SerializeValues ==
    SimpleTestCases \cup
    { CircularReference, SelfReference, DeepCircularReference, MixedRows, Nested4, WithUndefinedProperty,
      WithFunction, SharedReference }

\* The largest recursionLimit handed to Serialize.
MaxRecursionLimit == 5

SerializeOptions == {DefaultOptions, [DefaultOptions EXCEPT !.MaxInlineComplexity = 0]}

DepthLimitMessage == "Depth limit exceeded - possible circular reference"

\* One call of ConvertDataToDom on the call stack: its arguments, how many of
\* the element's children it has converted, the item it is building and,
\* once done, what it returns (defined is FALSE when it returns undefined).
Call(element, propName, recursionLimit) ==
    [element |-> element, propName |-> propName, recursionLimit |-> recursionLimit,
     index |-> 0, Children |-> <<>>, done |-> FALSE, defined |-> FALSE, result |-> NewJsonItem]

\* The recursive calls ConvertDataToDom(..., recursionLimit-1) of a call.
RecursiveCall(call, element, propName) == Call(element, propName, call.recursionLimit - 1)

\* JSON.stringify(propName) of a one-letter key; "" when there is no name.
StringifyPropName(propName) == IF propName = "" THEN <<>> ELSE <<"\"", propName, "\"">>

\* The entry test of ConvertDataToDom.
DepthLimitReachedBelow(recursionLimit) == recursionLimit < 0

DepthLimitReached(recursionLimit) == recursionLimit <= 0

\* The item a call returns, with its Complexity set from its Children.
ConvertedItem(call) ==
    LET type == CASE call.element.kind = "null" -> "Null"
                  [] call.element.kind = "array" -> "Array"
                  [] call.element.kind = "object" -> "Object"
                  [] call.element.kind = "string" -> "String"
                  [] call.element.kind = "number" -> "Number"
                  [] call.element.kind = "boolean" ->
                        IF call.element.text = <<"t", "r", "u", "e">> THEN "True" ELSE "False"
        highestChildComplexity ==
            CHOOSE c \in {call.Children[i].Complexity : i \in 1..Len(call.Children)} :
                \A i \in 1..Len(call.Children) : call.Children[i].Complexity <= c
    IN  [NewJsonItem EXCEPT !.Type = type,
                            !.Name = StringifyPropName(call.propName),
                            !.Value = call.element.text,
                            !.Children = call.Children,
                            !.Complexity = IF Len(call.Children) > 0 THEN highestChildComplexity + 1 ELSE 0]

InitSerialize ==
    /\ opts \in SerializeOptions
    /\ \E value \in SerializeValues, recursionLimit \in 0..MaxRecursionLimit :
           input = [heap |-> value.heap, root |-> value.root, recursionLimit |-> recursionLimit]
    /\ pc = "Value"
    /\ initialOutput = <<>>
    /\ layouts = <<>>
    /\ crunchOutput = <<>>
    /\ backToStartOutput1 = <<>>
    /\ expandOutput = <<>>
    /\ backToStartOutput2 = <<>>
    /\ failed = ""

\* In the actions of Serialize, layouts holds the call stack of
\* ConvertDataToDom, the running call last.
Running == layouts[Len(layouts)]

Converting(kinds) ==
    /\ pc = "ConvertDataToDom"
    /\ ~Running.done
    /\ ~DepthLimitReached(Running.recursionLimit)
    /\ Running.element.kind \in kinds

\* The stack with its running call replaced.
Continued(call) == [layouts EXCEPT ![Len(layouts)] = call]

\* Formatter.Serialize(element, 0, recursionLimit) calls ConvertDataToDom.
SerializeElement ==
    /\ pc = "Value"
    /\ layouts' = <<Call(input.heap[input.root], "", input.recursionLimit)>>
    /\ pc' = "ConvertDataToDom"
    /\ UNCHANGED <<opts, input, initialOutput, crunchOutput, backToStartOutput1, expandOutput,
                   backToStartOutput2, failed>>

\* if (recursionLimit <= 0) throw: the error leaves every call and Serialize.
ThrowDepthLimit ==
    /\ pc = "ConvertDataToDom"
    /\ ~Running.done
    /\ DepthLimitReached(Running.recursionLimit)
    /\ layouts' = <<>>
    /\ failed' = DepthLimitMessage
    /\ pc' = "thrown"
    /\ UNCHANGED <<opts, input, initialOutput, crunchOutput, backToStartOutput1, expandOutput,
                   backToStartOutput2>>

\* A function, a symbol or undefined: return undefined.
ReturnUndefined ==
    /\ Converting({"function", "symbol", "undefined"})
    /\ layouts' = Continued([Running EXCEPT !.done = TRUE, !.defined = FALSE])
    /\ UNCHANGED <<opts, input, pc, initialOutput, crunchOutput, backToStartOutput1, expandOutput,
                   backToStartOutput2, failed>>

\* An element with toJSON: convert JSON.parse(JSON.stringify(element)), with
\* no property name.
ConvertToJSON ==
    /\ Converting({"toJSON"})
    /\ layouts' = Append(layouts, RecursiveCall(Running, ScalarOf("string", Running.element.text), ""))
    /\ UNCHANGED <<opts, input, pc, initialOutput, crunchOutput, backToStartOutput1, expandOutput,
                   backToStartOutput2, failed>>

\* The next child of an array or of an object is converted.
ConvertChild ==
    /\ Converting({"array", "object"})
    /\ Running.index < Len(Running.element.refs)
    /\ layouts' =
           Append(layouts,
                  RecursiveCall(Running, input.heap[Running.element.refs[Running.index + 1]],
                                IF Running.element.kind = "object"
                                THEN Running.element.names[Running.index + 1] ELSE ""))
    /\ UNCHANGED <<opts, input, pc, initialOutput, crunchOutput, backToStartOutput1, expandOutput,
                   backToStartOutput2, failed>>

\* A scalar, or a container whose children are all converted: return item.
ReturnItem ==
    /\ Converting({"null", "string", "number", "boolean", "array", "object"})
    /\ Running.index = Len(Running.element.refs)
    /\ layouts' = Continued([Running EXCEPT !.done = TRUE, !.defined = TRUE,
                                            !.result = ConvertedItem(Running)])
    /\ UNCHANGED <<opts, input, pc, initialOutput, crunchOutput, backToStartOutput1, expandOutput,
                   backToStartOutput2, failed>>

\* The running call returns to the call that made it: a toJSON call returns
\* the same; an array takes the item, or converts null in place of undefined;
\* an object takes the item or leaves the property out.
ReturnToCaller ==
    /\ pc = "ConvertDataToDom"
    /\ Running.done
    /\ Len(layouts) > 1
    /\ LET caller == layouts[Len(layouts) - 1]
           returned == SubSeq(layouts, 1, Len(layouts) - 2)
           taken == [caller EXCEPT !.Children = Append(caller.Children, Running.result),
                                   !.index = caller.index + 1]
       IN  layouts' =
               IF caller.element.kind = "toJSON"
               THEN Append(returned, [caller EXCEPT !.done = TRUE, !.defined = Running.defined,
                                                    !.result = Running.result])
               ELSE IF Running.defined THEN Append(returned, taken)
               ELSE IF caller.element.kind = "array"
               THEN Append(Append(returned, caller), RecursiveCall(caller, NullData, ""))
               ELSE Append(returned, [caller EXCEPT !.index = caller.index + 1])
    /\ UNCHANGED <<opts, input, pc, initialOutput, crunchOutput, backToStartOutput1, expandOutput,
                   backToStartOutput2, failed>>

\* ConvertDataToDom has returned to Serialize: undefined for no docModel,
\* else the text FormatTopLevel writes.
ReturnFromSerialize ==
    /\ pc = "ConvertDataToDom"
    /\ Running.done
    /\ Len(layouts) = 1
    /\ \E r \in {IF Running.defined THEN FormatTopLevel(opts, <<Running.result>>).text ELSE <<>>} :
           /\ initialOutput' = r
           /\ pc' = IF Running.defined THEN "Serialized" ELSE "undefined"
    /\ layouts' = <<>>
    /\ UNCHANGED <<opts, input, crunchOutput, backToStartOutput1, expandOutput, backToStartOutput2,
                   failed>>

NextSerialize ==
    \/ SerializeElement
    \/ ThrowDepthLimit
    \/ ReturnUndefined
    \/ ConvertToJSON
    \/ ConvertChild
    \/ ReturnItem
    \/ ReturnToCaller
    \/ ReturnFromSerialize

\* The steps up to the return of ConvertDataToDom to Serialize.
ConvertDataToDomStep ==
    \/ SerializeElement
    \/ ThrowDepthLimit
    \/ ReturnUndefined
    \/ ConvertToJSON
    \/ ConvertChild
    \/ ReturnItem
    \/ ReturnToCaller

\* The conversion runs on: a call that can take a step takes it.
SpecSerialize == InitSerialize /\ [][NextSerialize]_vars /\ WF_vars(ConvertDataToDomStep)

-----------------------------------------------------------------------------
(* How deep a value is nested *)

\* The elements ConvertDataToDom is called on from a call on this element.
ElementsOf(value, element) ==
    IF element.kind = "toJSON" THEN {ScalarOf("string", element.text)}
    ELSE {value.heap[element.refs[i]] : i \in 1..Len(element.refs)}

\* The elements that stand k levels below the value itself.
RECURSIVE ElementsAtLevel(_, _)
ElementsAtLevel(value, k) ==
    IF k = 0 THEN {value.heap[value.root]}
    ELSE UNION {ElementsOf(value, element) : element \in ElementsAtLevel(value, k - 1)}

NestingReaches(value, levels) == ElementsAtLevel(value, levels) # {}

\* The value contains itself: some element leads back to itself.
ContainsReferenceCycle(value) == NestingReaches(value, Len(value.heap) + 1)

\* C20: Serialize of a value whose nesting reaches recursionLimit levels,
\* as that of every value with a reference cycle does, never has more than
\* recursionLimit + 1 calls running and never returns a text or undefined,
\* and it comes to an end by throwing the depth-limit error.
C20_DeepValueEndsInThrow ==
    /\ [](NestingReaches(input, input.recursionLimit) =>
              /\ Len(layouts) <= input.recursionLimit + 1
              /\ initialOutput = <<>>
              /\ pc \notin {"Serialized", "undefined"})
    /\ NestingReaches(input, input.recursionLimit) ~> (pc = "thrown" /\ failed = DepthLimitMessage)

\* Serialize of a value with a reference cycle has thrown from the deepest
\* call a recursionLimit above one allows.
C20_Witness ==
    /\ pc = "thrown"
    /\ failed = DepthLimitMessage
    /\ initialOutput = <<>>
    /\ ContainsReferenceCycle(input)
    /\ input.recursionLimit > 1

-----------------------------------------------------------------------------
(* The formatter object of fracturedjson.ts and its calls                    *)

\* The private fields of a new Formatter.  _indentCache holds the indents
\* made so far, by depth; a depth outside its domain is undefined.
NewFormatter ==
    [ _jsonEolStyle |-> "lf", _maxInlineLength |-> 80, _maxInlineComplexity |-> 2,
      _maxCompactArrayComplexity |-> 1, _nestedBracketPadding |-> TRUE, _colonPadding |-> TRUE,
      _commaPadding |-> TRUE, _alwaysExpandDepth |-> -1, _indentSpaces |-> 4,
      _useTabToIndent |-> FALSE, _tableObjectMinimumSimilarity |-> 75,
      _tableArrayMinimumSimilarity |-> 75, _alignExpandedPropertyNames |-> FALSE,
      _dontJustifyNumbers |-> FALSE, _prefixString |-> <<>>,
      _eolStr |-> <<>>, _indentStr |-> <<>>, _paddedCommaStr |-> <<>>, _paddedColonStr |-> <<>>,
      _indentCache |-> <<>> ]

\* String.repeat
Repeated(str, count) == Flatten([i \in 1..count |-> str])

\* Formatter.initInternals
initInternals(f) ==
    [f EXCEPT !._eolStr = IF f._jsonEolStyle = "Crlf" THEN <<"\r", "\n">> ELSE <<"\n">>,
              !._indentStr = IF f._useTabToIndent THEN <<"\t">> ELSE Repeated(<<" ">>, f._indentSpaces),
              !._paddedCommaStr = IF f._commaPadding THEN <<",", " ">> ELSE <<",">>,
              !._paddedColonStr = IF f._colonPadding THEN <<":", " ">> ELSE <<":">>]

\* !this._indentCache[depth]: nothing there, or the empty string.
NotCached(cache, depth) == depth \notin DOMAIN cache \/ cache[depth] = <<>>

\* Formatter.indent: yields the buffer and the cache it leaves.
indent(f, cache, buff, depth) ==
    LET filled == IF NotCached(cache, depth)
                  THEN (depth :> Repeated(f._indentStr, depth)) @@ cache
                  ELSE cache
    IN  [buff |-> buff \o f._prefixString \o filled[depth], cache |-> filled]

\* The values serialized: JSON strings, whole numbers and arrays of them.
StringValue(chars) == [kind |-> "string", text |-> <<"\"">> \o chars \o <<"\"">>, items |-> <<>>]
NumberValue(digits) == [kind |-> "number", text |-> digits, items |-> <<>>]
ArrayValue(items) == [kind |-> "array", text |-> <<>>, items |-> items]

\* new FormattedNode()
NewFormattedNode ==
    [Name |-> <<>>, Value |-> <<>>, Complexity |-> 0, Depth |-> 0, Kind |-> "Undefined",
     Format |-> "Inline", Children |-> <<>>]

\* FormattedNode.cleanup
cleanup(node) ==
    LET kept == IF node.Format # "Inline" THEN <<>> ELSE node.Children
    IN  [node EXCEPT !.Children = [i \in 1..Len(kept) |-> [kept[i] EXCEPT !.Children = <<>>]]]

\* Formatter.formatSimple
formatSimple(depth, element) ==
    [NewFormattedNode EXCEPT !.Value = element.text, !.Complexity = 0, !.Depth = depth,
                             !.Kind = IF element.kind = "number" THEN "Number" ELSE "String",
                             !.Format = "Inline"]

\* Formatter.emptyArray
emptyArray(depth) ==
    [NewFormattedNode EXCEPT !.Value = <<"[", "]">>, !.Complexity = 0, !.Depth = depth,
                             !.Kind = "Array", !.Format = "Inline"]

\* ColumnStats: update over the nodes of a column of whole numbers and
\* strings.  Number(value).toString() of a whole number is its digits.
NewColumnStats ==
    [OrderSum |-> 0, Count |-> 0, MaxValueSize |-> 0, IsQualifiedNumeric |-> TRUE,
     CharsBeforeDec |-> 0, CharsAfterDec |-> 0]

update(stats, propNode, index) ==
    LET numeric == stats.IsQualifiedNumeric /\ propNode.Kind = "Number"
        normalizedNum == TrimStart(propNode.Value)
    IN  [stats EXCEPT !.OrderSum = @ + index,
                      !.Count = @ + 1,
                      !.MaxValueSize = Max(@, Len(propNode.Value)),
                      !.IsQualifiedNumeric = numeric,
                      !.CharsBeforeDec = IF numeric THEN Max(@, Len(normalizedNum)) ELSE @]

\* ColumnStats.formatValue; toFixed(0) of a whole number is its digits.
formatValue(stats, value, dontJustify) ==
    IF stats.IsQualifiedNumeric /\ ~dontJustify
    THEN PadStart(TrimStart(value),
                  stats.CharsBeforeDec + stats.CharsAfterDec + (IF stats.CharsAfterDec > 0 THEN 1 ELSE 0))
    ELSE value \o Spaces(stats.MaxValueSize - Len(value))

RECURSIVE updateAll(_, _, _)
updateAll(stats, nodes, index) ==
    IF nodes = <<>> THEN stats ELSE updateAll(update(stats, Head(nodes), index), Tail(nodes), index)

\* Formatter.justifyParallelNumbers: the item list with its Values rewritten.
justifyParallelNumbers(f, itemList) ==
    LET columnStats == updateAll(NewColumnStats, itemList, 0)
    IN  IF Len(itemList) < 2 \/ f._dontJustifyNumbers \/ ~columnStats.IsQualifiedNumeric
        THEN itemList
        ELSE [i \in 1..Len(itemList) |->
                [itemList[i] EXCEPT !.Value = formatValue(columnStats, @, f._dontJustifyNumbers)]]

\* Formatter.formatArrayInline: whether it applied, and the item it leaves.
formatArrayInline(f, thisItem) ==
    LET useNestedBracketPadding == f._nestedBracketPadding /\ thisItem.Complexity >= 2
        lineLength == 2 + (IF useNestedBracketPadding THEN 2 ELSE 0)
                      + (Len(thisItem.Children) - 1) * Len(f._paddedCommaStr)
                      + SumSeq([i \in 1..Len(thisItem.Children) |-> Len(thisItem.Children[i].Value)])
        pad == IF useNestedBracketPadding THEN <<" ">> ELSE <<>>
        buff == <<"[">> \o pad
                \o Flatten([i \in 1..Len(thisItem.Children) |->
                              (IF i > 1 THEN f._paddedCommaStr ELSE <<>>) \o thisItem.Children[i].Value])
                \o pad \o <<"]">>
    IN  IF thisItem.Complexity > f._maxInlineComplexity \/ lineLength > f._maxInlineLength
        THEN [ok |-> FALSE, item |-> thisItem]
        ELSE [ok |-> TRUE, item |-> [thisItem EXCEPT !.Value = buff, !.Format = "Inline"]]

\* The while loop of formatArrayMultilineCompact.
RECURSIVE CompactLoop(_, _, _, _, _)
CompactLoop(f, thisItem, st, lineLengthSoFar, childIndex) ==
    IF childIndex >= Len(thisItem.Children) THEN st
    ELSE LET notLastItem == childIndex < Len(thisItem.Children) - 1
             itemLength == Len(thisItem.Children[childIndex + 1].Value)
             segmentLength == itemLength + (IF notLastItem THEN Len(f._paddedCommaStr) ELSE 0)
             wraps == lineLengthSoFar + segmentLength > f._maxInlineLength /\ lineLengthSoFar > 0
             broken == IF wraps THEN indent(f, st.cache, st.buff \o f._eolStr, thisItem.Depth + 1) ELSE st
             written == [broken EXCEPT !.buff = @ \o thisItem.Children[childIndex + 1].Value
                                                  \o (IF notLastItem THEN f._paddedCommaStr ELSE <<>>)]
         IN  CompactLoop(f, thisItem, written, (IF wraps THEN 0 ELSE lineLengthSoFar) + segmentLength,
                         childIndex + 1)

\* Formatter.formatArrayMultilineCompact
formatArrayMultilineCompact(f, cache, thisItem) ==
    IF thisItem.Complexity > f._maxCompactArrayComplexity
    THEN [ok |-> FALSE, item |-> thisItem, cache |-> cache]
    ELSE LET first == indent(f, cache, <<"[">> \o f._eolStr, thisItem.Depth + 1)
             rows == CompactLoop(f, thisItem, first, 0, 0)
             last == indent(f, rows.cache, rows.buff \o f._eolStr, thisItem.Depth)
         IN  [ok |-> TRUE,
              item |-> [thisItem EXCEPT !.Value = last.buff \o <<"]">>, !.Format = "MultilineCompact"],
              cache |-> last.cache]

\* The for loop of formatArrayExpanded over the children from index i on.
RECURSIVE ExpandedLoop(_, _, _, _)
ExpandedLoop(f, thisItem, st, i) ==
    IF i > Len(thisItem.Children) THEN st
    ELSE LET child == thisItem.Children[i]
             parted == IF i > 1 THEN st.buff \o <<",">> \o f._eolStr ELSE st.buff
             indented == indent(f, st.cache, parted, child.Depth)
         IN  ExpandedLoop(f, thisItem, [indented EXCEPT !.buff = @ \o child.Value], i + 1)

\* Formatter.formatArrayExpanded
formatArrayExpanded(f, cache, thisItem) ==
    LET rows == ExpandedLoop(f, thisItem, [buff |-> <<"[">> \o f._eolStr, cache |-> cache], 1)
        last == indent(f, rows.cache, rows.buff \o f._eolStr, thisItem.Depth)
    IN  [ok |-> TRUE,
         item |-> [thisItem EXCEPT !.Value = last.buff \o <<"]">>, !.Format = "Expanded"],
         cache |-> last.cache]

\* Formatter.getPropertyStats: null unless every child is an inline object.
\* The values serialized here hold no objects, so it always answers null.
getPropertyStats(thisItem) ==
    IF Len(thisItem.Children) < 2 THEN [found |-> FALSE, stats |-> <<>>]
    ELSE IF \E i \in 1..Len(thisItem.Children) :
                thisItem.Children[i].Kind # "Object" \/ thisItem.Children[i].Format # "Inline"
    THEN [found |-> FALSE, stats |-> <<>>]
    ELSE [found |-> FALSE, stats |-> <<>>]

\* Formatter.getArrayStats: the column statistics, or null.
getArrayStats(f, thisItem) ==
    LET rowsOf == thisItem.Children
        valid == \A i \in 1..Len(rowsOf) : rowsOf[i].Kind = "Array" /\ rowsOf[i].Format = "Inline"
        numberOfColumns ==
            CHOOSE n \in {Len(rowsOf[i].Children) : i \in 1..Len(rowsOf)} :
                \A i \in 1..Len(rowsOf) : Len(rowsOf[i].Children) <= n
        column(c) ==
            LET having == SelectSeq(rowsOf, LAMBDA row : Len(row.Children) >= c)
            IN  updateAll(NewColumnStats, [r \in 1..Len(having) |-> having[r].Children[c]], c - 1)
        colStatsArray == [c \in 1..numberOfColumns |-> column(c)]
        totalElemCount == SumSeq([i \in 1..Len(rowsOf) |-> Len(rowsOf[i].Children)])
        lineLength == 4 + SumSeq([c \in 1..numberOfColumns |-> colStatsArray[c].MaxValueSize])
                      + (numberOfColumns - 1) * Len(f._paddedCommaStr)
    IN  IF Len(rowsOf) < 2 \/ ~valid THEN [found |-> FALSE, stats |-> <<>>]
        ELSE IF 100 * totalElemCount < f._tableArrayMinimumSimilarity * (Len(rowsOf) * numberOfColumns)
        THEN [found |-> FALSE, stats |-> <<>>]
        ELSE IF lineLength > f._maxInlineLength THEN [found |-> FALSE, stats |-> <<>>]
        ELSE [found |-> TRUE, stats |-> colStatsArray]

\* Formatter.formatArrayTableRow
formatArrayTableRow(f, thisItem, columnStatsArray) ==
    LET n == Len(thisItem.Children)
        cells == Flatten([index \in 1..n |->
                    (IF index > 1 THEN f._paddedCommaStr ELSE <<>>)
                    \o formatValue(columnStatsArray[index], thisItem.Children[index].Value,
                                   f._dontJustifyNumbers)])
        missing == Flatten([k \in 1..(Len(columnStatsArray) - n) |->
                      Spaces(columnStatsArray[n + k].MaxValueSize
                             + (IF n + k = 1 THEN 0 ELSE Len(f._paddedCommaStr)))])
    IN  [thisItem EXCEPT !.Value = <<"[", " ">> \o cells \o missing \o <<" ", "]">>,
                         !.Format = "InlineTabular"]

\* Formatter.formatTableArrayObject
formatTableArrayObject(f, cache, thisItem) ==
    IF f._tableObjectMinimumSimilarity > 100 \/ ~getPropertyStats(thisItem).found
    THEN [ok |-> FALSE, item |-> thisItem, cache |-> cache]
    ELSE formatArrayExpanded(f, cache, thisItem)

\* Formatter.formatTableArrayArray
formatTableArrayArray(f, cache, thisItem) ==
    LET columnStats == getArrayStats(f, thisItem)
    IN  IF f._tableArrayMinimumSimilarity > 100 \/ ~columnStats.found
        THEN [ok |-> FALSE, item |-> thisItem, cache |-> cache]
        ELSE formatArrayExpanded(f, cache,
                [thisItem EXCEPT !.Children =
                    [i \in 1..Len(@) |-> formatArrayTableRow(f, @[i], columnStats.stats)]])

RECURSIVE formatElement(_, _, _, _)
RECURSIVE formatChildren(_, _, _, _, _)

\* element.map(child => this.formatElement(depth+1, child)), child by child.
formatChildren(f, st, depth, elements, i) ==
    IF i > Len(elements) THEN st
    ELSE LET child == formatElement(f, st.cache, depth + 1, elements[i])
         IN  formatChildren(f, [items |-> Append(st.items, child.item), cache |-> child.cache],
                            depth, elements, i + 1)

\* Formatter.formatArray
formatArray(f, cache, depth, element) ==
    LET made == formatChildren(f, [items |-> <<>>, cache |-> cache], depth, element.items, 1)
        items == made.items
        highest == CHOOSE c \in {items[i].Complexity : i \in 1..Len(items)} :
                       \A i \in 1..Len(items) : items[i].Complexity <= c
        thisItem == [NewFormattedNode EXCEPT !.Kind = "Array", !.Complexity = highest + 1,
                                             !.Depth = depth, !.Children = items]
        mayInline == depth > f._alwaysExpandDepth
        inline == formatArrayInline(f, thisItem)
        justified == [thisItem EXCEPT !.Children = justifyParallelNumbers(f, items)]
        compact == formatArrayMultilineCompact(f, made.cache, justified)
        tableOfObjects == formatTableArrayObject(f, made.cache, justified)
        tableOfArrays == formatTableArrayArray(f, made.cache, justified)
    IN  IF items = <<>> THEN [item |-> emptyArray(depth), cache |-> made.cache]
        ELSE IF mayInline /\ inline.ok THEN [item |-> inline.item, cache |-> made.cache]
        ELSE IF mayInline /\ compact.ok THEN [item |-> compact.item, cache |-> compact.cache]
        ELSE IF tableOfObjects.ok THEN [item |-> tableOfObjects.item, cache |-> tableOfObjects.cache]
        ELSE IF tableOfArrays.ok THEN [item |-> tableOfArrays.item, cache |-> tableOfArrays.cache]
        ELSE LET expanded == formatArrayExpanded(f, made.cache, justified)
             IN  [item |-> expanded.item, cache |-> expanded.cache]

\* Formatter.formatElement
formatElement(f, cache, depth, element) ==
    LET formatted == IF element.kind = "array" THEN formatArray(f, cache, depth, element)
                     ELSE [item |-> formatSimple(depth, element), cache |-> cache]
    IN  [item |-> cleanup(formatted.item), cache |-> formatted.cache]

\* Formatter.serialize: the text returned and the formatter it leaves.
serialize(f, jsValue) ==
    LET ready == initInternals(f)
        formatted == formatElement(ready, ready._indentCache, 0, jsValue)
    IN  [text |-> ready._prefixString \o formatted.item.Value,
         formatter |-> [ready EXCEPT !._indentCache = formatted.cache]]

\* The values handed to serialize.
Letters == ArrayValue(<<StringValue(<<"a">>), StringValue(<<"b">>), StringValue(<<"c">>)>>)
Pairs ==
    ArrayValue(<<ArrayValue(<<NumberValue(<<"1">>), NumberValue(<<"2", "0">>)>>),
                 ArrayValue(<<NumberValue(<<"3", "0">>), NumberValue(<<"4">>)>>)>>)
Ragged ==
    ArrayValue(<<StringValue(<<"a">>),
                 ArrayValue(<<ArrayValue(<<NumberValue(<<"1">>)>>), ArrayValue(<<>>), StringValue(<<"b", "c">>)>>),
                 NumberValue(<<"7">>)>>)
Deep == ArrayValue(<<ArrayValue(<<ArrayValue(<<ArrayValue(<<NumberValue(<<"1">>), NumberValue(<<"2">>)>>)>>)>>)>>)

SerializedValues == {StringValue(<<"a">>), ArrayValue(<<>>), Letters, Pairs, Ragged, Deep}

\* The most calls of serialize made on one formatter.
MaxCalls == 3

\* The values the setters of the formatter are called with.
IndentSpacesSet == {2, NewFormatter._indentSpaces}
PrefixStringSet == {<<>>, <<"\t">>}
MaxInlineLengthSet == {12, NewFormatter._maxInlineLength}
AlwaysExpandDepthSet == {NewFormatter._alwaysExpandDepth, 1}

\* One formatter object: opts holds its fields, layouts the values it has
\* serialized so far, input and initialOutput the last value and its text.
InitFormatter ==
    /\ opts = NewFormatter
    /\ input = <<>>
    /\ pc = "Formatter"
    /\ initialOutput = <<>>
    /\ layouts = <<>>
    /\ crunchOutput = <<>>
    /\ backToStartOutput1 = <<>>
    /\ expandOutput = <<>>
    /\ backToStartOutput2 = <<>>
    /\ failed = ""

UnchangedBySetter ==
    UNCHANGED <<input, pc, initialOutput, layouts, crunchOutput, backToStartOutput1, expandOutput,
                backToStartOutput2, failed>>

\* set indentSpaces(value)
SetIndentSpaces ==
    /\ \E value \in IndentSpacesSet : opts' = [opts EXCEPT !._indentSpaces = value]
    /\ UnchangedBySetter

\* set useTabToIndent(value)
SetUseTabToIndent ==
    /\ \E value \in BOOLEAN : opts' = [opts EXCEPT !._useTabToIndent = value]
    /\ UnchangedBySetter

\* set prefixString(value)
SetPrefixString ==
    /\ \E value \in PrefixStringSet : opts' = [opts EXCEPT !._prefixString = value]
    /\ UnchangedBySetter

\* set commaPadding(value)
SetCommaPadding ==
    /\ \E value \in BOOLEAN : opts' = [opts EXCEPT !._commaPadding = value]
    /\ UnchangedBySetter

\* set maxInlineLength(value)
SetMaxInlineLength ==
    /\ \E value \in MaxInlineLengthSet : opts' = [opts EXCEPT !._maxInlineLength = value]
    /\ UnchangedBySetter

\* set alwaysExpandDepth(value)
SetAlwaysExpandDepth ==
    /\ \E value \in AlwaysExpandDepthSet : opts' = [opts EXCEPT !._alwaysExpandDepth = value]
    /\ UnchangedBySetter

\* formatter.serialize(jsValue)
SerializeValue ==
    /\ Len(layouts) < MaxCalls
    /\ \E jsValue \in SerializedValues :
         \E r \in {serialize(opts, jsValue)} :
           /\ input' = jsValue
           /\ initialOutput' = r.text
           /\ opts' = r.formatter
           /\ layouts' = Append(layouts, "serialize")
    /\ pc' = "Serialized"
    /\ UNCHANGED <<crunchOutput, backToStartOutput1, expandOutput, backToStartOutput2, failed>>

NextFormatter ==
    \/ SetIndentSpaces
    \/ SetUseTabToIndent
    \/ SetPrefixString
    \/ SetCommaPadding
    \/ SetMaxInlineLength
    \/ SetAlwaysExpandDepth
    \/ SerializeValue

SpecFormatter == InitFormatter /\ [][NextFormatter]_vars

\* The public properties of a formatter, on a formatter never used before.
FreshFormatter(f) ==
    [NewFormatter EXCEPT !._jsonEolStyle = f._jsonEolStyle,
                         !._maxInlineLength = f._maxInlineLength,
                         !._maxInlineComplexity = f._maxInlineComplexity,
                         !._maxCompactArrayComplexity = f._maxCompactArrayComplexity,
                         !._nestedBracketPadding = f._nestedBracketPadding,
                         !._colonPadding = f._colonPadding,
                         !._commaPadding = f._commaPadding,
                         !._alwaysExpandDepth = f._alwaysExpandDepth,
                         !._indentSpaces = f._indentSpaces,
                         !._useTabToIndent = f._useTabToIndent,
                         !._tableObjectMinimumSimilarity = f._tableObjectMinimumSimilarity,
                         !._tableArrayMinimumSimilarity = f._tableArrayMinimumSimilarity,
                         !._alignExpandedPropertyNames = f._alignExpandedPropertyNames,
                         !._dontJustifyNumbers = f._dontJustifyNumbers,
                         !._prefixString = f._prefixString]

\* C21: whatever calls and option changes came before, a serialize call
\* returns the text that a new formatter with the same options returns for
\* the same value: no indent made in an earlier call is used again.
C21_CallDependsOnlyOnInputAndOptions ==
    [][SerializeValue => initialOutput' = serialize(FreshFormatter(opts), input').text]_vars

-----------------------------------------------------------------------------
(* The rows of a compact array *)

\* [1,"a",2,"bbbbbbbbbbbbbbb",3,"c",4,5]
UnevenCompactItems ==
    << "[", "1", ",", "\"", "a", "\"", ",", "2", ",", "\"", "b", "b", "b", "b", "b", "b", "b", "b",
      "b", "b", "b", "b", "b", "b", "b", "\"", ",", "3", ",", "\"", "c", "\"", ",", "4", ",", "5",
      "]" >>

\* [1,2,3,4,5,6,7,8,9,10,11,12]
EvenCompactItems ==
    << "[", "1", ",", "2", ",", "3", ",", "4", ",", "5", ",", "6", ",", "7", ",", "8", ",", "9",
      ",", "1", "0", ",", "1", "1", ",", "1", "2", "]" >>

\* [1,2,3,4,5,6,"bbbbbbbbbbbbbbb"]
LongLastCompactItem ==
    << "[", "1", ",", "2", ",", "3", ",", "4", ",", "5", ",", "6", ",", "\"", "b", "b", "b", "b",
      "b", "b", "b", "b", "b", "b", "b", "b", "b", "b", "b", "\"", "]" >>

\* ["bbbbbbbbbbbbbbb",1,2,3,4,5,6]
LongFirstCompactItem ==
    << "[", "\"", "b", "b", "b", "b", "b", "b", "b", "b", "b", "b", "b", "b", "b", "b", "b", "\"",
      ",", "1", ",", "2", ",", "3", ",", "4", ",", "5", ",", "6", "]" >>

\* [[1,2],[3,4],[5,6],[null,8],[9,10]]
CompactInnerArrays ==
    << "[", "[", "1", ",", "2", "]", ",", "[", "3", ",", "4", "]", ",", "[", "5", ",", "6", "]",
      ",", "[", "n", "u", "l", "l", ",", "8", "]", ",", "[", "9", ",", "1", "0", "]", "]" >>

CompactArrayTexts ==
    { UnevenCompactItems, EvenCompactItems, LongLastCompactItem, LongFirstCompactItem,
      CompactInnerArrays }

MaxInlineLengths == {20, 120}

MaxTotalLineLengths == {16, 20, 24, 30}

MinCompactArrayRowItemsSet == {2, 3}

\* The length settings under which the arrays are formatted.
CompactArrayOptions ==
    { [DefaultOptions EXCEPT !.MaxInlineLength = inlineLen, !.MaxTotalLineLength = totalLen,
                             !.MinCompactArrayRowItems = itemsPerRow] :
        inlineLen \in MaxInlineLengths, totalLen \in MaxTotalLineLengths,
        itemsPerRow \in MinCompactArrayRowItemsSet }

InitCompactArrays ==
    /\ opts \in CompactArrayOptions
    /\ input \in CompactArrayTexts
    /\ pc = "Text"
    /\ initialOutput = <<>>
    /\ layouts = <<>>
    /\ crunchOutput = <<>>
    /\ backToStartOutput1 = <<>>
    /\ expandOutput = <<>>
    /\ backToStartOutput2 = <<>>
    /\ failed = ""

SpecCompactArrays == InitCompactArrays /\ [][NextTests]_vars

\* The top-level element is an array written MultilineCompact, and its
\* opening bracket is the first line of the output.
TopLevelArrayIsCompact ==
    /\ Reformatted
    /\ \E k \in 1..Len(layouts) :
           /\ layouts[k].depth = 0
           /\ layouts[k].layout = "MultilineCompact"
           /\ layouts[k].item.Type = "Array"
    /\ SkipPrefixAndIndent(opts, OutputLines(opts, initialOutput)[1]) = <<"[">>

\* The line of the output on which that array closes.
ClosingLine(lines) ==
    CHOOSE c \in 1..Len(lines) :
        /\ SkipPrefixAndIndent(opts, lines[c]) = <<"]">>
        /\ \A i \in 1..(c - 1) : SkipPrefixAndIndent(opts, lines[i]) # <<"]">>

\* The items on a row that is not the last: each is followed by its comma.
ItemsOnRow(line) == TopLevelCommas(SkipPrefixAndIndent(opts, line), 1, 0, FALSE)

\* C22: when the top-level array is written MultilineCompact, every row of
\* items but the last holds at least MinCompactArrayRowItems items.
C22_CompactRowsHoldTheMinimum ==
    TopLevelArrayIsCompact =>
        LET lines == OutputLines(opts, initialOutput)
        IN  \A i \in 2..(ClosingLine(lines) - 2) : ItemsOnRow(lines[i]) >= opts.MinCompactArrayRowItems

-----------------------------------------------------------------------------
(* Blank lines of the input *)

\* {\r\n\r\n    //comment\r\n    "w": true,\r\n\r\n    \r\n    "x": false\r\n}
ObjectBlankLines ==
    << "{", "\r", "\n", "\r", "\n", " ", " ", " ", " ", "/", "/", "c", "o", "m", "m", "e", "n", "t",
      "\r", "\n", " ", " ", " ", " ", "\"", "w", "\"", ":", " ", "t", "r", "u", "e", ",", "\r",
      "\n", "\r", "\n", " ", " ", " ", " ", "\r", "\n", " ", " ", " ", " ", "\"", "x", "\"", ":",
      " ", "f", "a", "l", "s", "e", "\r", "\n", "}" >>

\* {"a":\n\n1}
BlankLineAfterColon ==
    << "{", "\"", "a", "\"", ":", "\n", "\n", "1", "}" >>

\* {"a"\n\n:1}
BlankLineAfterPropName ==
    << "{", "\"", "a", "\"", "\n", "\n", ":", "1", "}" >>

\* {"a":1,\n\n"b":2}
BlankLineAfterComma ==
    << "{", "\"", "a", "\"", ":", "1", ",", "\n", "\n", "\"", "b", "\"", ":", "2", "}" >>

\* [\n\n1,\n \t\n2\n\n]
ArrayBlankLines ==
    << "[", "\n", "\n", "1", ",", "\n", " ", "\t", "\n", "2", "\n", "\n", "]" >>

\* \n\n[1]\n\n
BlankLinesAround ==
    << "\n", "\n", "[", "1", "]", "\n", "\n" >>

\* {"a":[1,\n\n2]}
BlankLineInInnerArray ==
    << "{", "\"", "a", "\"", ":", "[", "1", ",", "\n", "\n", "2", "]", "}" >>

\* [\n1,\n2 \n]\n
NoBlankLines ==
    << "[", "\n", "1", ",", "\n", "2", " ", "\n", "]", "\n" >>

BlankLineTexts ==
    { ObjectBlankLines, BlankLineAfterColon, BlankLineAfterPropName, BlankLineAfterComma,
      ArrayBlankLines, BlankLinesAround, BlankLineInInnerArray, NoBlankLines }

BlankLineOptions ==
    { [DefaultOptions EXCEPT !.PreserveBlankLines = preserve, !.CommentPolicy = policy,
                             !.AllowTrailingCommas = trailing] :
        preserve \in BOOLEAN, policy \in {"TreatAsError", "Remove", "Preserve"},
        trailing \in BOOLEAN }

InitBlankLines ==
    /\ opts \in BlankLineOptions
    /\ input \in BlankLineTexts
    /\ pc = "Text"
    /\ initialOutput = <<>>
    /\ layouts = <<>>
    /\ crunchOutput = <<>>
    /\ backToStartOutput1 = <<>>
    /\ expandOutput = <<>>
    /\ backToStartOutput2 = <<>>
    /\ failed = ""

SpecBlankLines == InitBlankLines /\ [][NextTests]_vars

\* The lines of the text that end in a line feed and hold only whitespace,
\* counted from character i on; blank says that the line has held nothing
\* else so far.
RECURSIVE BlankLinesFrom(_, _, _)
BlankLinesFrom(text, i, blank) ==
    IF i > Len(text) THEN 0
    ELSE IF text[i] = "\n" THEN (IF blank THEN 1 ELSE 0) + BlankLinesFrom(text, i + 1, TRUE)
    ELSE BlankLinesFrom(text, i + 1, blank /\ text[i] \in {" ", "\t", "\r"})

\* The BlankLine nodes of an item and of everything inside it.
RECURSIVE BlankLineNodes(_)
BlankLineNodes(item) ==
    (IF item.Type = "BlankLine" THEN 1 ELSE 0)
        + SumSeq([i \in 1..Len(item.Children) |-> BlankLineNodes(item.Children[i])])

BlankLineNodesOf(items) == SumSeq([i \in 1..Len(items) |-> BlankLineNodes(items[i])])

\* The text has been read and the parser accepted it.
Parsed == pc # "Text" /\ ParseTopLevel(opts, input, TRUE).err = ""

\* C23: every blank line of the input is a BlankLine node of the parsed tree
\* when PreserveBlankLines is set, and the tree has no BlankLine node when it
\* is not.
C23_BlankLineNodesIffPreserved ==
    Parsed =>
        BlankLineNodesOf(ParseTopLevel(opts, input, TRUE).items)
            = IF opts.PreserveBlankLines THEN BlankLinesFrom(input, 1, TRUE) ELSE 0

-----------------------------------------------------------------------------
(* The type of a column while its rows are measured *)

\* [null,1,null,"a",2]
NullsBetweenKinds ==
    << "[", "n", "u", "l", "l", ",", "1", ",", "n", "u", "l", "l", ",", "\"", "a", "\"", ",", "2",
      "]" >>

\* [[1,2],null,"x",[4,5,6]]
ArraysThenString ==
    << "[", "[", "1", ",", "2", "]", ",", "n", "u", "l", "l", ",", "\"", "x", "\"", ",", "[", "4",
      ",", "5", ",", "6", "]", "]" >>

\* [{"a":1},{"a":null},{"a":"s","b":[1]},{"b":[2,3]}]
ObjectsWithMixedProperty ==
    << "[", "{", "\"", "a", "\"", ":", "1", "}", ",", "{", "\"", "a", "\"", ":", "n", "u", "l", "l",
      "}", ",", "{", "\"", "a", "\"", ":", "\"", "s", "\"", ",", "\"", "b", "\"", ":", "[", "1",
      "]", "}", ",", "{", "\"", "b", "\"", ":", "[", "2", ",", "3", "]", "}", "]" >>

\* [true,false,null,true]
BooleansAndNull ==
    << "[", "t", "r", "u", "e", ",", "f", "a", "l", "s", "e", ",", "n", "u", "l", "l", ",", "t",
      "r", "u", "e", "]" >>

\* [1,true,2]
NumberThenBoolean ==
    << "[", "1", ",", "t", "r", "u", "e", ",", "2", "]" >>

\* ["a",null,"b"]
StringsAndNull ==
    << "[", "\"", "a", "\"", ",", "n", "u", "l", "l", ",", "\"", "b", "\"", "]" >>

\* [{"a":1},[1],{"a":2,"c":3}]
ObjectThenArray ==
    << "[", "{", "\"", "a", "\"", ":", "1", "}", ",", "[", "1", "]", ",", "{", "\"", "a", "\"", ":",
      "2", ",", "\"", "c", "\"", ":", "3", "}", "]" >>

\* [null,null]
OnlyNulls ==
    << "[", "n", "u", "l", "l", ",", "n", "u", "l", "l", "]" >>

\* [[1],/*c*/[null],[[2]],["s"]]
RowsWithComment ==
    << "[", "[", "1", "]", ",", "/", "*", "c", "*", "/", "[", "n", "u", "l", "l", "]", ",", "[",
      "[", "2", "]", "]", ",", "[", "\"", "s", "\"", "]", "]" >>

\* [[1,[2]],[null,"x"],[3,[4,5]]]
MixedInnerColumn ==
    << "[", "[", "1", ",", "[", "2", "]", "]", ",", "[", "n", "u", "l", "l", ",", "\"", "x", "\"",
      "]", ",", "[", "3", ",", "[", "4", ",", "5", "]", "]", "]" >>

ColumnTexts ==
    { NullsBetweenKinds, ArraysThenString, ObjectsWithMixedProperty, BooleansAndNull,
      NumberThenBoolean, StringsAndNull, ObjectThenArray, OnlyNulls, RowsWithComment,
      MixedInnerColumn }

ColumnOptions ==
    { [DefaultOptions EXCEPT !.CommentPolicy = "Preserve", !.DontJustifyNumbers = dontJustify] :
        dontJustify \in BOOLEAN }

\* tableRoot.Children: the rows of the array a text holds, lengths computed.
RowSegments ==
    ComputeItemLengths(opts, ParseTopLevel(opts, input, TRUE).items[1]).Children

InitColumn ==
    /\ opts \in ColumnOptions
    /\ input \in ColumnTexts
    /\ pc = "TableRoot"
    /\ initialOutput = <<>>
    /\ layouts = <<>>
    /\ crunchOutput = <<>>
    /\ backToStartOutput1 = <<>>
    /\ expandOutput = <<>>
    /\ backToStartOutput2 = <<>>
    /\ failed = ""

UnchangedByTemplate ==
    UNCHANGED <<opts, input, initialOutput, crunchOutput, backToStartOutput1, expandOutput,
                backToStartOutput2, failed>>

\* new TableTemplate(pads, !DontJustifyNumbers). layouts keeps the template
\* as it was constructed and as every row and the final pruning left it.
ConstructTemplate ==
    /\ pc = "TableRoot"
    /\ layouts' = <<NewTableTemplate(~opts.DontJustifyNumbers)>>
    /\ pc' = "Measuring"
    /\ UnchangedByTemplate

\* A scan in which a row is measured as if all rows before it had agreed.
MeasureNextRowAnew ==
    /\ pc = "Measuring"
    /\ Len(layouts) <= Len(RowSegments)
    /\ layouts' = Append(layouts,
                         MeasureRowSegment([layouts[Len(layouts)] EXCEPT !.IsRowDataCompatible = TRUE],
                                           RowSegments[Len(layouts)]))
    /\ pc' = pc
    /\ UnchangedByTemplate

\* One round of the loop of MeasureTableRoot: this.MeasureRowSegment(child)
MeasureNextRow ==
    /\ pc = "Measuring"
    /\ Len(layouts) <= Len(RowSegments)
    /\ layouts' = Append(layouts, MeasureRowSegment(layouts[Len(layouts)], RowSegments[Len(layouts)]))
    /\ pc' = pc
    /\ UnchangedByTemplate

\* The end of MeasureTableRoot: PruneAndRecompute and the row count test.
FinishTableRoot ==
    /\ pc = "Measuring"
    /\ Len(layouts) > Len(RowSegments)
    /\ \E sized \in {PruneAndRecompute(opts, layouts[Len(layouts)], NumberMaxValue)} :
           layouts' = Append(layouts,
                             [sized EXCEPT !.IsRowDataCompatible =
                                 sized.IsRowDataCompatible /\ sized.RowCount >= 2])
    /\ pc' = "Measured"
    /\ UnchangedByTemplate

NextColumn ==
    \/ ConstructTemplate
    \/ MeasureNextRow
    \/ FinishTableRoot

SpecColumn == InitColumn /\ [][NextColumn]_vars

\* The rows measured so far: row k took the template from layouts[k] to
\* layouts[k + 1].
ScannedRows == {k \in 1..(Len(layouts) - 1) : k <= Len(RowSegments)}

\* True and False are one kind.
KindOf(type) == IF type = "False" THEN "True" ELSE type

\* The row is a value of a kind other than the one the column has taken.
DiffersFromColumn(template, rowSegment) ==
    /\ ~IsCommentOrBlankLine(rowSegment.Type)
    /\ rowSegment.Type # "Null"
    /\ template.Type # "Null"
    /\ KindOf(rowSegment.Type) # template.Type

\* A template and all its sub-templates.
RECURSIVE TemplatesIn(_)
TemplatesIn(template) ==
    {template} \cup UNION {TemplatesIn(template.Children[i]) : i \in 1..Len(template.Children)}

\* C24: while the rows of a column are measured in order, a Null row leaves
\* the column's type as it was; a row of a kind other than the column's
\* makes the column incompatible; an incompatible column stays so under
\* every later row and gets no further sub-column; and when the measuring
\* is finished no incompatible column, at any depth, has sub-columns.
C24_MixedColumnStaysMixed ==
    pc \in {"Measuring", "Measured"} =>
        /\ \A k \in ScannedRows :
               LET before == layouts[k]
                   after == layouts[k + 1]
                   rowSegment == RowSegments[k]
               IN  /\ rowSegment.Type = "Null" => after.Type = before.Type
                   /\ DiffersFromColumn(before, rowSegment) => ~after.IsRowDataCompatible
                   /\ ~before.IsRowDataCompatible =>
                          /\ ~after.IsRowDataCompatible
                          /\ after.Children = before.Children
        /\ pc = "Measured" =>
               /\ ~layouts[Len(layouts) - 1].IsRowDataCompatible => ~layouts[Len(layouts)].IsRowDataCompatible
               /\ \A template \in TemplatesIn(layouts[Len(layouts)]) :
                      ~template.IsRowDataCompatible => template.Children = <<>>

\* A finished measuring in which a Null row followed a typed one, a row
\* turned a column that had sub-columns incompatible, and an array row wider
\* than those sub-columns was measured after that.
C24_Witness ==
    /\ pc = "Measured"
    /\ \E n, k, j \in ScannedRows :
           /\ RowSegments[n].Type = "Null" /\ layouts[n].Type # "Null"
           /\ k < j
           /\ layouts[k].IsRowDataCompatible
           /\ DiffersFromColumn(layouts[k], RowSegments[k])
           /\ Len(layouts[k].Children) > 0
           /\ RowSegments[j].Type = "Array"
           /\ Len(RowSegments[j].Children) > Len(layouts[j].Children)

-----------------------------------------------------------------------------
(* The rounds of TryToFit *)

\* {"R":{"p":{"x":-44,"y":3.4},"c":[0,255,255]},"P":{"p":{"y":22,"z":3}},"O":{"p":{"x":140,"y":0.04},"c":"#7f3e96"}}
NestedElements ==
    << "{", "\"", "R", "\"", ":", "{", "\"", "p", "\"", ":", "{", "\"", "x", "\"", ":", "-", "4",
      "4", ",", "\"", "y", "\"", ":", "3", ".", "4", "}", ",", "\"", "c", "\"", ":", "[", "0", ",",
      "2", "5", "5", ",", "2", "5", "5", "]", "}", ",", "\"", "P", "\"", ":", "{", "\"", "p", "\"",
      ":", "{", "\"", "y", "\"", ":", "2", "2", ",", "\"", "z", "\"", ":", "3", "}", "}", ",", "\"",
      "O", "\"", ":", "{", "\"", "p", "\"", ":", "{", "\"", "x", "\"", ":", "1", "4", "0", ",",
      "\"", "y", "\"", ":", "0", ".", "0", "4", "}", ",", "\"", "c", "\"", ":", "\"", "#", "7", "f",
      "3", "e", "9", "6", "\"", "}", "}" >>

\* [{"a":{"x":[1,2],"y":3}},{"a":{"x":[10,20],"y":4}}]
ThreeLevels ==
    << "[", "{", "\"", "a", "\"", ":", "{", "\"", "x", "\"", ":", "[", "1", ",", "2", "]", ",",
      "\"", "y", "\"", ":", "3", "}", "}", ",", "{", "\"", "a", "\"", ":", "{", "\"", "x", "\"",
      ":", "[", "1", "0", ",", "2", "0", "]", ",", "\"", "y", "\"", ":", "4", "}", "}", "]" >>

\* [[1,2],[3,4]]
OneLevel ==
    << "[", "[", "1", ",", "2", "]", ",", "[", "3", ",", "4", "]", "]" >>

\* [1,2,3]
NoLevels ==
    << "[", "1", ",", "2", ",", "3", "]" >>

\* [[[1,2],3],[[4,5],6]]
UnevenLevels ==
    << "[", "[", "[", "1", ",", "2", "]", ",", "3", "]", ",", "[", "[", "4", ",", "5", "]", ",",
      "6", "]", "]" >>

\* {"aaaaaaaaaa":[1],"b":[1,2,3,4,5,6]}
LongNameShortValue ==
    << "{", "\"", "a", "a", "a", "a", "a", "a", "a", "a", "a", "a", "\"", ":", "[", "1", "]", ",",
      "\"", "b", "\"", ":", "[", "1", ",", "2", ",", "3", ",", "4", ",", "5", ",", "6", "]", "}" >>

\* [[[100,2],[3,4000]],[[5,60],[7000,8]]]
WideInnerColumns ==
    << "[", "[", "[", "1", "0", "0", ",", "2", "]", ",", "[", "3", ",", "4", "0", "0", "0", "]",
      "]", ",", "[", "[", "5", ",", "6", "0", "]", ",", "[", "7", "0", "0", "0", ",", "8", "]", "]",
      "]" >>

\* [[[1000000,2],[1,1]],[[5,6000000],[7,8]]]
StaggeredColumns ==
    << "[", "[", "[", "1", "0", "0", "0", "0", "0", "0", ",", "2", "]", ",", "[", "1", ",", "1",
      "]", "]", ",", "[", "[", "5", ",", "6", "0", "0", "0", "0", "0", "0", "]", ",", "[", "7", ",",
      "8", "]", "]", "]" >>
NestedTableTexts ==
    { NestedElements, ThreeLevels, OneLevel, NoLevels, UnevenLevels, LongNameShortValue,
      WideInnerColumns, StaggeredColumns }

MaxTotalLineLengthSet == {12, 20, 28, 32, 36, 44, 60, 77, 120}

NestedTableOptions ==
    { [DefaultOptions EXCEPT !.MaxTotalLineLength = totalLen] : totalLen \in MaxTotalLineLengthSet }

InitTryToFit ==
    /\ opts \in NestedTableOptions
    /\ input \in NestedTableTexts
    /\ pc = "TableRoot"
    /\ initialOutput = <<>>
    /\ layouts = <<>>
    /\ crunchOutput = <<>>
    /\ backToStartOutput1 = <<>>
    /\ expandOutput = <<>>
    /\ backToStartOutput2 = <<>>
    /\ failed = ""

\* availableSpace of FormatContainerTable for the top-level container.
maximumLength == AvailableLineSpace(opts, 1) - CommaLen(opts)

\* template.MeasureTableRoot(item); layouts keeps the template as it was
\* measured and as every round of TryToFit left it.
MeasureRoot ==
    /\ pc = "TableRoot"
    /\ layouts' = <<MeasureTableRoot(opts, ComputeItemLengths(opts, ParseTopLevel(opts, input, TRUE).items[1]))>>
    /\ pc' = "TryToFit"
    /\ UnchangedByTemplate

\* The loop variable of TryToFit: it starts at GetTemplateComplexity() and
\* falls by one with every round.
complexity == GetTemplateComplexity(layouts[1]) - (Len(layouts) - 1)

\* if (this.TotalLength <= maximumLength) return true
ReturnTrue ==
    /\ pc = "TryToFit"
    /\ complexity >= 0
    /\ layouts[Len(layouts)].TotalLength <= maximumLength
    /\ pc' = "true"
    /\ UNCHANGED layouts
    /\ UnchangedByTemplate

\* A round that drops every sub-template at once.
PruneToTheRoot ==
    /\ pc = "TryToFit"
    /\ complexity >= 0
    /\ layouts[Len(layouts)].TotalLength > maximumLength
    /\ layouts' = Append(layouts, PruneAndRecompute(opts, layouts[Len(layouts)], 0))
    /\ pc' = pc
    /\ UnchangedByTemplate

\* this.PruneAndRecompute(complexity - 1)
PruneRound ==
    /\ pc = "TryToFit"
    /\ complexity >= 0
    /\ layouts[Len(layouts)].TotalLength > maximumLength
    /\ layouts' = Append(layouts, PruneAndRecompute(opts, layouts[Len(layouts)], complexity - 1))
    /\ pc' = pc
    /\ UnchangedByTemplate

\* The loop is over: return false
ReturnFalse ==
    /\ pc = "TryToFit"
    /\ complexity < 0
    /\ pc' = "false"
    /\ UNCHANGED layouts
    /\ UnchangedByTemplate

TryToFitStep ==
    \/ ReturnTrue
    \/ PruneRound
    \/ ReturnFalse

NextTryToFit ==
    \/ MeasureRoot
    \/ TryToFitStep

\* A call of TryToFit that has begun is carried on.
SpecTryToFit == InitTryToFit /\ [][NextTryToFit]_vars /\ WF_vars(TryToFitStep)

\* The sub-templates l levels below a template.
RECURSIVE TemplatesAtLevel(_, _)
TemplatesAtLevel(template, l) ==
    IF l = 0 THEN 1
    ELSE SumSeq([i \in 1..Len(template.Children) |-> TemplatesAtLevel(template.Children[i], l - 1)])

\* The round took away the deepest layer of sub-templates and nothing else.
RemovedDeepestLayer(before, after) ==
    LET depth == GetTemplateComplexity(before)
    IN  /\ GetTemplateComplexity(after) = Max(0, depth - 1)
        /\ \A l \in 0..(depth - 1) : TemplatesAtLevel(after, l) = TemplatesAtLevel(before, l)

\* The rounds run so far: round k took the template from layouts[k] to
\* layouts[k + 1].
TryToFitRounds ==
    /\ pc \in {"TryToFit", "true", "false"}
    /\ Len(layouts) - 1 <= GetTemplateComplexity(layouts[1]) + 1
    /\ \A k \in 1..(Len(layouts) - 1) :
           /\ layouts[k].TotalLength > maximumLength
           /\ RemovedDeepestLayer(layouts[k], layouts[k + 1])
    /\ pc = "true" => layouts[Len(layouts)].TotalLength <= maximumLength
    /\ pc = "false" =>
           /\ Len(layouts) >= 2
           /\ layouts[Len(layouts) - 1].Children = <<>>
           /\ layouts[Len(layouts) - 1].TotalLength > maximumLength

\* C25: a call of TryToFit ends; it runs at most one round more than the
\* template is deep; every round takes away the deepest layer of
\* sub-templates only; it returns true with the first template that is
\* within the length, every template before it being too long; and it
\* returns false only when the template without sub-templates is too long.
C25_TryToFitEndsAtTheFirstFit ==
    /\ [](pc # "TableRoot" => TryToFitRounds)
    /\ pc = "TryToFit" ~> pc \in {"true", "false"}

\* TryToFit returned true after a round that left sub-templates, with a
\* template shorter than the one it began with.
C25_Witness ==
    /\ pc = "true"
    /\ Len(layouts) >= 2
    /\ layouts[Len(layouts)].Children # <<>>
    /\ layouts[Len(layouts)].TotalLength < layouts[1].TotalLength

-----------------------------------------------------------------------------
(* Inlining an element that needs several lines *)

\* C26: no call of the formatter ends in the error of InlineElement, which
\* is thrown when an element that requires multiple lines is to be inlined.
C26_NeverInlinesAMultilineElement ==
    /\ failed # "Logic error - trying to inline invalid element"
    /\ ~HasThrown(initialOutput)

\* A text was formatted in which a container requiring multiple lines holds
\* a standalone comment or blank line, and in which some container was
\* written as a table and some container on one line.
C26_Witness ==
    /\ Reformatted
    /\ \E k, t, n \in 1..Len(layouts) :
           /\ layouts[k].item.RequiresMultipleLines
           /\ \E i \in 1..Len(layouts[k].item.Children) :
                  IsCommentOrBlankLine(layouts[k].item.Children[i].Type)
           /\ layouts[t].layout = "Table"
           /\ layouts[n].layout = "Inline"

-----------------------------------------------------------------------------
(* The nodes of an array while it is laid out *)

Numbers == ArrayValue(<<NumberValue(<<"1">>), NumberValue(<<"2", "0">>), NumberValue(<<"3", "0", "0">>)>>)

EqualNumbers == ArrayValue(<<NumberValue(<<"1", "1">>), NumberValue(<<"2", "2">>)>>)

NumbersAndString == ArrayValue(<<NumberValue(<<"1">>), StringValue(<<"a", "b", "c">>), NumberValue(<<"2", "0">>)>>)

LongNumbers ==
    ArrayValue(<<NumberValue(<<"1", "2", "3", "4", "5", "6">>), NumberValue(<<"7">>),
                 NumberValue(<<"8", "9", "0", "1", "2">>), NumberValue(<<"3", "4">>)>>)

LaidOutArrays == {Letters, Pairs, Ragged, Deep, Numbers, EqualNumbers, NumbersAndString, LongNumbers}

LaidOutLengths == {6, 12, 20, NewFormatter._maxInlineLength}

\* The formatters that lay the arrays out, as initInternals leaves them.
LaidOutFormatters ==
    { initInternals([NewFormatter EXCEPT !._maxInlineLength = maxInlineLength,
                                         !._dontJustifyNumbers = dontJustifyNumbers,
                                         !._alwaysExpandDepth = alwaysExpandDepth]) :
        maxInlineLength \in LaidOutLengths, dontJustifyNumbers \in BOOLEAN,
        alwaysExpandDepth \in AlwaysExpandDepthSet }

\* formatArray(0, element): layouts holds thisItem.Children, initialOutput
\* the Value that the layout gives thisItem.
InitNodes ==
    /\ opts \in LaidOutFormatters
    /\ input \in LaidOutArrays
    /\ pc = "formatArray"
    /\ initialOutput = <<>>
    /\ layouts = <<>>
    /\ crunchOutput = <<>>
    /\ backToStartOutput1 = <<>>
    /\ expandOutput = <<>>
    /\ backToStartOutput2 = <<>>
    /\ failed = ""

\* thisItem of formatArray, with the children that layouts holds.
thisItem ==
    LET highest == CHOOSE c \in {layouts[i].Complexity : i \in 1..Len(layouts)} :
                       \A i \in 1..Len(layouts) : layouts[i].Complexity <= c
    IN  [NewFormattedNode EXCEPT !.Kind = "Array", !.Complexity = highest + 1, !.Depth = 0,
                                 !.Children = layouts]

\* The indents the children have left in the cache.
CacheOfChildren == formatChildren(opts, [items |-> <<>>, cache |-> <<>>], 0, input.items, 1).cache

\* items = element.map(child => this.formatElement(depth + 1, child))
FormatChildNodes ==
    /\ pc = "formatArray"
    /\ layouts' = formatChildren(opts, [items |-> <<>>, cache |-> <<>>], 0, input.items, 1).items
    /\ pc' = "Children"
    /\ UnchangedByTemplate

\* if (Depth > _alwaysExpandDepth) if (formatArrayInline(thisItem)) return
WriteArrayInline ==
    /\ pc = "Children"
    /\ 0 > opts._alwaysExpandDepth
    /\ formatArrayInline(opts, thisItem).ok
    /\ initialOutput' = formatArrayInline(opts, thisItem).item.Value
    /\ pc' = "Returned"
    /\ UNCHANGED <<opts, input, layouts, crunchOutput, backToStartOutput1, expandOutput,
                   backToStartOutput2, failed>>

\* this.justifyParallelNumbers(thisItem.Children)
JustifyChildNodes ==
    /\ pc = "Children"
    /\ ~(0 > opts._alwaysExpandDepth /\ formatArrayInline(opts, thisItem).ok)
    /\ layouts' = justifyParallelNumbers(opts, layouts)
    /\ pc' = "Justified"
    /\ UnchangedByTemplate

\* The rest of formatArray: the first of formatArrayMultilineCompact,
\* formatTableArrayObject, formatTableArrayArray and formatArrayExpanded
\* that applies.
WriteArrayOnLines ==
    /\ pc = "Justified"
    /\ \E compact \in {formatArrayMultilineCompact(opts, CacheOfChildren, thisItem)},
          tableOfObjects \in {formatTableArrayObject(opts, CacheOfChildren, thisItem)},
          tableOfArrays \in {formatTableArrayArray(opts, CacheOfChildren, thisItem)},
          expanded \in {formatArrayExpanded(opts, CacheOfChildren, thisItem)} :
           initialOutput' = IF 0 > opts._alwaysExpandDepth /\ compact.ok THEN compact.item.Value
                            ELSE IF tableOfObjects.ok THEN tableOfObjects.item.Value
                            ELSE IF tableOfArrays.ok THEN tableOfArrays.item.Value
                            ELSE expanded.item.Value
    /\ pc' = "Returned"
    /\ UNCHANGED <<opts, input, layouts, crunchOutput, backToStartOutput1, expandOutput,
                   backToStartOutput2, failed>>

NextNodes ==
    \/ FormatChildNodes
    \/ WriteArrayInline
    \/ JustifyChildNodes
    \/ WriteArrayOnLines

SpecNodes == InitNodes /\ [][NextNodes]_vars

\* C27: once the children of an array are formatted nodes, the layout of
\* the array changes no field of any of them; it only writes the text.
C27_LayoutLeavesTheNodesAlone ==
    [][pc # "formatArray" => layouts' = layouts]_vars

-----------------------------------------------------------------------------
(* The padding inside brackets *)

\* The padding type by the children alone: Empty without children, Complex
\* with a child that is an array or object, Simple otherwise.
PaddingTypeByChildren(arrOrObj) ==
    IF Len(arrOrObj.Children) = 0 THEN "Empty"
    ELSE IF \E i \in 1..Len(arrOrObj.Children) : IsContainer(arrOrObj.Children[i].Type) THEN "Complex"
    ELSE "Simple"

\* The containers among the items the formatter has laid out and everything
\* inside them.
ContainersLaidOut ==
    {item \in UNION {ItemsIn(layouts[k].item) : k \in 1..Len(layouts)} : IsContainer(item.Type)}

\* C28: every container of a formatted text has the padding type that its
\* children give it: Empty without children, Complex with a child array or
\* object, Simple otherwise.
C28_PaddingTypeFollowsChildren ==
    Reformatted => \A item \in ContainersLaidOut : GetPaddingType(item) = PaddingTypeByChildren(item)

-----------------------------------------------------------------------------
(* Two block comments before an element *)

\* [ /*a*/ /*b*/ 1 ]
ArrayLeadingComments ==
    << "[", " ", "/", "*", "a", "*", "/", " ", "/", "*", "b", "*", "/", " ", "1", " ", "]" >>

\* [1, /*a*/ /*b*/ 2]
ArrayCommentsAfterComma ==
    << "[", "1", ",", " ", "/", "*", "a", "*", "/", " ", "/", "*", "b", "*", "/", " ", "2", "]" >>

\* [1, /*a*/ /*b*/ /*c*/ 2]
ArrayThreeComments ==
    << "[", "1", ",", " ", "/", "*", "a", "*", "/", " ", "/", "*", "b", "*", "/", " ", "/", "*",
      "c", "*", "/", " ", "2", "]" >>

\* [[ /*a*/ /*b*/ [1] ]]
InnerArrayLeadingComments ==
    << "[", "[", " ", "/", "*", "a", "*", "/", " ", "/", "*", "b", "*", "/", " ", "[", "1", "]",
      " ", "]", "]" >>

\* { /*a*/ /*b*/ "x": 1 }
ObjectLeadingComments ==
    << "{", " ", "/", "*", "a", "*", "/", " ", "/", "*", "b", "*", "/", " ", "\"", "x", "\"", ":",
      " ", "1", " ", "}" >>

\* {"a":1, /*x*/ /*y*/ "b":2}
ObjectCommentsAfterComma ==
    << "{", "\"", "a", "\"", ":", "1", ",", " ", "/", "*", "x", "*", "/", " ", "/", "*", "y", "*",
      "/", " ", "\"", "b", "\"", ":", "2", "}" >>

\* {"a":1,\n /*x*/ /*y*/ "b":2}
ObjectCommentsOnNextLine ==
    << "{", "\"", "a", "\"", ":", "1", ",", "\n", " ", "/", "*", "x", "*", "/", " ", "/", "*", "y",
      "*", "/", " ", "\"", "b", "\"", ":", "2", "}" >>

\* [ /*a*/ /*b*/\n 1 ]
CommentsOnLineBefore ==
    << "[", " ", "/", "*", "a", "*", "/", " ", "/", "*", "b", "*", "/", "\n", " ", "1", " ", "]" >>

LeadingCommentTexts ==
    { ArrayLeadingComments, ArrayCommentsAfterComma, ArrayThreeComments, InnerArrayLeadingComments,
      ObjectLeadingComments, ObjectCommentsAfterComma, ObjectCommentsOnNextLine, CommentsOnLineBefore }

InitComments ==
    /\ opts \in BlankLineOptions
    /\ input \in LeadingCommentTexts
    /\ pc = "Text"
    /\ initialOutput = <<>>
    /\ layouts = <<>>
    /\ crunchOutput = <<>>
    /\ backToStartOutput1 = <<>>
    /\ expandOutput = <<>>
    /\ backToStartOutput2 = <<>>
    /\ failed = ""

SpecComments == InitComments /\ [][NextTests]_vars

\* Tokens i and i + 1 are block comments and token i + 2 begins an element
\* or names a property of the container they are in, all on one line.
TwoCommentsBeforeElement(toks, i) ==
    /\ i + 2 <= Len(toks)
    /\ toks[i].Type = "BlockComment" /\ toks[i + 1].Type = "BlockComment"
    /\ BeginsValue(toks[i + 2])
    /\ toks[i].Row = toks[i + 2].Row /\ toks[i + 1].Row = toks[i + 2].Row
    /\ Enclosing(toks, i) # 0
    /\ PreviousData(toks, i) # 0
    /\ toks[PreviousData(toks, i)].Type \in {"BeginArray", "BeginObject", "Comma"}

\* The token at which the value of the element begun at e starts: e itself,
\* or what follows the colon when e is a property name.
ValueToken(toks, e) ==
    IF IsPropertyName(toks, e) THEN NextData(toks, NextData(toks, e)) ELSE e

\* Everything in the tree of a document.
ItemsOfTree(items) == UNION {ItemsIn(items[k]) : k \in 1..Len(items)}

\* The places of the tree that hold the comment text: nodes of their own,
\* and prefix, middle and postfix comments of elements.
PlacesOfComment(items, text) ==
    Cardinality({item \in ItemsOfTree(items) : IsCommentOrBlankLine(item.Type) /\ item.Value = text})
    + Cardinality({item \in ItemsOfTree(items) : item.PrefixComment = text})
    + Cardinality({item \in ItemsOfTree(items) : item.MiddleComment = text})
    + Cardinality({item \in ItemsOfTree(items) : item.PostfixComment = text})

\* The earlier comment is a child of its own right before the element, and
\* the later one is the element's prefix comment.
EarlierStandsLaterAttaches(items, toks, i) ==
    LET value == toks[ValueToken(toks, i + 2)]
    IN  \E parent \in ItemsOfTree(items) :
            \E k \in 2..Len(parent.Children) :
                /\ parent.Children[k].Row = value.Row
                /\ parent.Children[k].Column = value.Column
                /\ ~IsCommentOrBlankLine(parent.Children[k].Type)
                /\ parent.Children[k].PrefixComment = toks[i + 1].Text
                /\ parent.Children[k - 1].Type = "BlockComment"
                /\ parent.Children[k - 1].Value = toks[i].Text

\* C29: when comments are preserved and two block comments stand on one
\* line right before an element of an array or object, the earlier is a
\* child of its own right before the element, the later is the element's
\* prefix comment, and each is in the tree exactly once.
C29_EarlierStandsLaterAttaches ==
    (Parsed /\ opts.CommentPolicy = "Preserve") =>
        LET toks == Tokenize(input)
            items == ParseTopLevel(opts, input, TRUE).items
        IN  \A i \in 1..Len(toks) :
                TwoCommentsBeforeElement(toks, i) =>
                    /\ EarlierStandsLaterAttaches(items, toks, i)
                    /\ PlacesOfComment(items, toks[i].Text) = 1
                    /\ PlacesOfComment(items, toks[i + 1].Text) = 1

-----------------------------------------------------------------------------
(* The length of an element written on one line *)

\* The tree of the text with the lengths ComputeItemLengths gives its items.
MeasuredItems ==
    LET items == ParseTopLevel(opts, input, TRUE).items
    IN  ItemsOfTree([k \in 1..Len(items) |-> ComputeItemLengths(opts, items[k])])

\* C30: every item of a measured tree that does not require multiple lines
\* is written by InlineElement, without a trailing comma, in exactly
\* MinimumTotalLength characters.
C30_InlinedWidthIsMinimumTotalLength ==
    Parsed =>
        \A item \in MeasuredItems :
            ~item.RequiresMultipleLines =>
                Len(InlineElement(opts, item, FALSE)) = item.MinimumTotalLength

\* A text was formatted whose tree holds, on one line, a container with
\* another container inside it, a named element and an element with a
\* prefix or postfix comment.
C30_Witness ==
    /\ Reformatted
    /\ \E outer, named, commented \in MeasuredItems :
           /\ ~outer.RequiresMultipleLines
           /\ \E i \in 1..Len(outer.Children) : Len(outer.Children[i].Children) > 0
           /\ ~named.RequiresMultipleLines /\ named.NameLength > 0
           /\ ~commented.RequiresMultipleLines
           /\ commented.PrefixCommentLength + commented.PostfixCommentLength > 0

====
